---- MODULE Spec2Model ----
(***************************************************************************)
(* A model of the leaky-buckets backend: the categorization resolver       *)
(* (lib/categorizer.py), the upload handler (handlers/upload.py), the      *)
(* month handler (handlers/month.py), the bucket handler                   *)
(* (handlers/buckets.py), the transaction handler                          *)
(* (handlers/transactions.py) and the delete-all-data handler              *)
(* (handlers/deletedata.py), over a key-value store with point             *)
(* get/put/delete, queries and scans.                                      *)
(*                                                                         *)
(* Text is a sequence of one-character strings, a dict is a function from  *)
(* its keys to its values, money is in cents and a confidence in percent.  *)
(***************************************************************************)
EXTENDS Integers, Sequences, FiniteSets, TLC

\* ------------------------------------------------------------------
\* Values
\* ------------------------------------------------------------------

\* Python's None, where a string is expected.
None == "<None>"

\* get_item's None: no item under the key.
NoItem == [absent |-> TRUE]

\* Python truthiness of an optional string: neither None nor "".
Truthy(v) == v /= None /\ v /= ""

\* dict.get(key) with the default None.
DictGet(d, k) == IF k \in DOMAIN d THEN d[k] ELSE None

\* d[key] = value
DictSet(d, k, v) == [x \in DOMAIN d \cup {k} |-> IF x = k THEN v ELSE d[x]]

Range(s) == {s[i] : i \in DOMAIN s}

Min(a, b) == IF a <= b THEN a ELSE b

\* ------------------------------------------------------------------
\* The key-value store (lib/db.py): a table is a function from the
\* primary keys present to their items.
\* ------------------------------------------------------------------

EmptyTable == [k \in {} |-> NoItem]

put_item(table, key, item) ==
    [k \in DOMAIN table \cup {key} |-> IF k = key THEN item ELSE table[k]]

get_item(table, key) == IF key \in DOMAIN table THEN table[key] ELSE NoItem

delete_item(table, key) == [k \in DOMAIN table \ {key} |-> table[k]]

\* ------------------------------------------------------------------
\* Text: str.strip() and str.lower()
\* ------------------------------------------------------------------

\* The no-break space, a character.
NBSP == "<NBSP>"

UpperLetters == <<"A", "B", "C", "D", "E", "F", "G", "H", "I", "J", "K", "L", "M", "N", "O", "P", "Q", "R", "S", "T", "U", "V", "W", "X", "Y", "Z">>

LowerLetters == <<"a", "b", "c", "d", "e", "f", "g", "h", "i", "j", "k", "l", "m", "n", "o", "p", "q", "r", "s", "t", "u", "v", "w", "x", "y", "z">>

\* What str.strip() and \s take for blank.
Whitespace == {" ", "\t", "\n", "\r", NBSP}

LowerChar(c) ==
    IF c \in Range(UpperLetters)
    THEN LowerLetters[CHOOSE i \in DOMAIN UpperLetters : UpperLetters[i] = c]
    ELSE c

Lower(s) == [i \in DOMAIN s |-> LowerChar(s[i])]

RECURSIVE LStrip(_)
LStrip(s) == IF s /= <<>> /\ Head(s) \in Whitespace THEN LStrip(Tail(s)) ELSE s

RECURSIVE RStrip(_)
RStrip(s) ==
    IF s /= <<>> /\ s[Len(s)] \in Whitespace
    THEN RStrip(SubSeq(s, 1, Len(s) - 1))
    ELSE s

Strip(s) == RStrip(LStrip(s))

\* The descriptions the model draws from: two spellings of one merchant
\* (case and surrounding blanks differ) and another merchant.
DescTj == <<"T", "j">>
DescTjLoose == <<" ", "t", "J", " ">>
DescK == <<"k">>
Descs == {DescTj, DescTjLoose, DescK}

\* ------------------------------------------------------------------
\* lib/categorizer.py
\* ------------------------------------------------------------------

BUCKETS ==
    { "Home & Utilities", "Groceries", "Dining & Coffee", "Subscriptions",
      "Health", "Transport", "Fun & Travel", "One-Off & Big Hits" }

\* Max descriptions per model call.
CHUNK_SIZE == 20

\* Mutant: the merchant key is trimmed and not lowercased.
MerchantKeyNoLower(description) == Strip(description)

\* merchant_key = description.strip().lower()
MerchantKey(description) == Lower(Strip(description))

\* "if stored and stored.get('bucket')"
MemoryHit(stored) == stored /= NoItem /\ Truthy(DictGet(stored, "bucket"))

\* The reasoning text carries the description as the caller wrote it.
MemoryReasoning(description) == <<"previously categorized by user", description>>

MemoryResult(stored, description) ==
    [bucket |-> stored.bucket, confidence |-> 100, source |-> "merchant_memory",
     reasoning |-> MemoryReasoning(description)]

AiErrorResult ==
    [bucket |-> None, confidence |-> 0, source |-> "ai_error",
     reasoning |-> <<"AI categorization failed">>]

AiUnavailableResult ==
    [bucket |-> None, confidence |-> 0, source |-> "ai_unavailable",
     reasoning |-> <<"OpenAI API key not configured">>]

NoAiResult ==
    [bucket |-> None, confidence |-> 0, source |-> "ai_error",
     reasoning |-> <<"No AI result returned for this transaction">>]

\* The bucket check both model paths apply to a JSON object of the reply:
\* a bucket outside BUCKETS is replaced, then the source is set.
ValidateItem(item) ==
    LET coerced ==
            IF DictGet(item, "bucket") \notin BUCKETS
            THEN DictSet(DictSet(DictSet(item, "bucket", None), "confidence", 0),
                         "reasoning", <<"AI suggested unknown bucket">>)
            ELSE item
    IN DictSet(coerced, "source", "ai")

\* A reply of the model is [t |-> "raise"] (the call raises), [t |-> "text"]
\* (text that json.loads rejects) or [t |-> "json", v |-> value]; a JSON value
\* is [t |-> "obj", o |-> dict], [t |-> "arr", a |-> sequence of values] or
\* [t |-> "str"].
ai_categorize_single(description, reply) ==
    IF reply.t = "json" /\ reply.v.t = "obj"
    THEN ValidateItem(reply.v.o)
    ELSE AiErrorResult

\* The model calls made, in order: the descriptions each one carried and the
\* reply it got.
SingleCalls(descriptions, single) ==
    [i \in DOMAIN descriptions |->
        [kind |-> "single", descs |-> <<descriptions[i]>>,
         reply |-> single[descriptions[i]]]]

\* Mutant: the fallback stops after the first description.
ai_categorize_singles_first(descriptions, single) ==
    [d \in {descriptions[1]} |-> ai_categorize_single(d, single[d])]

ai_categorize_singles(descriptions, single) ==
    [d \in Range(descriptions) |-> ai_categorize_single(d, single[d])]

ChunkAccepted(descriptions, reply) ==
    /\ reply.t = "json"
    /\ reply.v.t = "arr"
    /\ Len(reply.v.a) = Len(descriptions)
    /\ \A i \in DOMAIN reply.v.a : reply.v.a[i].t = "obj"

\* results[desc] = item for desc, item in zip(descriptions, parsed): a later
\* position of a repeated description overwrites an earlier one.
ZipResults(descriptions, parsed) ==
    [d \in Range(descriptions) |->
        LET pos == CHOOSE i \in DOMAIN descriptions :
                        /\ descriptions[i] = d
                        /\ \A j \in DOMAIN descriptions :
                               descriptions[j] = d => j <= i
        IN ValidateItem(parsed[pos].o)]

ai_categorize_chunk(descriptions, reply, single) ==
    IF ChunkAccepted(descriptions, reply)
    THEN [results |-> ZipResults(descriptions, reply.v.a),
          calls |-> <<[kind |-> "chunk", descs |-> descriptions, reply |-> reply]>>]
    ELSE [results |-> ai_categorize_singles(descriptions, single),
          calls |-> <<[kind |-> "chunk", descs |-> descriptions, reply |-> reply]>>
                        \o SingleCalls(descriptions, single)]

Configured(key) == key /= "" /\ key /= "PLACEHOLDER_UPDATE_ME"

\* Mutant: a last chunk that is not full is left out.
NumChunksFull(n) == n \div CHUNK_SIZE

\* The number of iterations of "for start in range(0, len, _CHUNK_SIZE)".
NumChunks(n) == (n + CHUNK_SIZE - 1) \div CHUNK_SIZE

ChunkOf(descriptions, c) ==
    SubSeq(descriptions, (c - 1) * CHUNK_SIZE + 1,
           Min(c * CHUNK_SIZE, Len(descriptions)))

\* Mutant: the results of a chunk replace those gathered so far.
DictReplace(a, b) == b

\* results.update(chunk_results)
DictUpdate(a, b) ==
    [k \in DOMAIN a \cup DOMAIN b |-> IF k \in DOMAIN b THEN b[k] ELSE a[k]]

RECURSIVE ChunkLoop(_, _, _, _)
ChunkLoop(descriptions, c, oracle, acc) ==
    IF c > NumChunks(Len(descriptions)) THEN acc
    ELSE LET out == ai_categorize_chunk(ChunkOf(descriptions, c),
                                        oracle.chunk[c], oracle.single)
         IN ChunkLoop(descriptions, c + 1, oracle,
                      [results |-> DictUpdate(acc.results, out.results),
                       calls |-> acc.calls \o out.calls])

ai_categorize_batch(descriptions, key, oracle) ==
    IF ~Configured(key)
    THEN [results |-> [d \in Range(descriptions) |-> AiUnavailableResult],
          calls |-> <<>>]
    ELSE ChunkLoop(descriptions, 1, oracle,
                   [results |-> EmptyTable, calls |-> <<>>])

\* categorize_transaction: merchant memory first, the model second.  With no
\* usable credential the model call is still made and fails (the action
\* draws the reply accordingly).
categorize_transaction(description, mem, reply) ==
    LET stored == get_item(mem, MerchantKey(description))
    IN IF MemoryHit(stored)
       THEN MemoryResult(stored, description)
       ELSE ai_categorize_single(description, reply)

\* The model calls categorize_transaction makes: one on a memory miss,
\* whatever the credential.
categorize_transaction_calls(description, mem, reply) ==
    IF MemoryHit(get_item(mem, MerchantKey(description)))
    THEN <<>>
    ELSE <<[kind |-> "single", descs |-> <<description>>, reply |-> reply]>>

\* The merchants-table item remember_merchant writes.
MerchantItem(description, bucket) ==
    [merchantName |-> MerchantKey(description), bucket |-> bucket,
     originalDescription |-> description]

\* Mutant: an existing entry only has its bucket replaced.
remember_merchant_bucket_only(mem, description, bucket) ==
    IF MerchantKey(description) \in DOMAIN mem
    THEN put_item(mem, MerchantKey(description),
                  [mem[MerchantKey(description)] EXCEPT !.bucket = bucket])
    ELSE put_item(mem, MerchantKey(description), MerchantItem(description, bucket))

remember_merchant(mem, description, bucket) ==
    put_item(mem, MerchantKey(description), MerchantItem(description, bucket))

\* Step 1 of categorize_batch: a memory hit is resolved in place.
BatchMemoryPass(transactions, mem) ==
    [i \in DOMAIN transactions |->
        LET stored == get_item(mem, MerchantKey(transactions[i].description))
        IN IF MemoryHit(stored)
           THEN DictSet(DictSet(DictSet(DictSet(transactions[i],
                    "bucket", stored.bucket),
                    "confidence", 100),
                    "categorization_source", "merchant_memory"),
                    "categorization_reasoning",
                    MemoryReasoning(transactions[i].description))
           ELSE transactions[i]]

\* The positions lo..hi of the memory misses, in order.
RECURSIVE NeedsAiIn(_, _, _, _)
NeedsAiIn(transactions, mem, lo, hi) ==
    IF lo > hi THEN <<>>
    ELSE IF lo = hi
    THEN (IF MemoryHit(get_item(mem, MerchantKey(transactions[lo].description)))
          THEN <<>> ELSE <<lo>>)
    ELSE NeedsAiIn(transactions, mem, lo, (lo + hi) \div 2)
            \o NeedsAiIn(transactions, mem, ((lo + hi) \div 2) + 1, hi)

\* needs_ai: the positions of the memory misses from i on, in order.
NeedsAi(transactions, mem, i) == NeedsAiIn(transactions, mem, i, Len(transactions))

\* Mutant: no deduplication.
DedupeNone(s) == s

\* list(dict.fromkeys(descs)): the first occurrences, in order.
RECURSIVE Dedupe(_)
Dedupe(s) ==
    IF Len(s) <= 1 THEN s
    ELSE LET front == Dedupe(SubSeq(s, 1, Len(s) \div 2))
             back == Dedupe(SubSeq(s, (Len(s) \div 2) + 1, Len(s)))
             New(x) == x \notin Range(front)
         IN front \o SelectSeq(back, New)

\* The four assignments of step 4, in order; result[field] raises KeyError
\* when the result lacks the field, and the assignments made so far stay.
ResultFields ==
    << <<"bucket", "bucket">>, <<"confidence", "confidence">>,
       <<"categorization_source", "source">>,
       <<"categorization_reasoning", "reasoning">> >>

RECURSIVE AssignFields(_, _, _)
AssignFields(txn, result, pairs) ==
    IF pairs = <<>> THEN [txn |-> txn, raised |-> FALSE]
    ELSE IF pairs[1][2] \notin DOMAIN result THEN [txn |-> txn, raised |-> TRUE]
    ELSE AssignFields(DictSet(txn, pairs[1][1], result[pairs[1][2]]),
                      result, Tail(pairs))

\* desc_to_result.get(desc, default)
ResultFor(desc_to_result, desc) ==
    IF desc \in DOMAIN desc_to_result THEN desc_to_result[desc] ELSE NoAiResult

\* Step 4 for the positions lo..hi of needs_ai, in order: the loop stops at
\* the first assignment that raises.
RECURSIVE FanOutIn(_, _, _, _, _)
FanOutIn(transactions, needs_ai, desc_to_result, lo, hi) ==
    IF lo > hi THEN [txns |-> transactions, raised |-> FALSE]
    ELSE IF lo = hi
    THEN LET idx == needs_ai[lo]
             one == AssignFields(transactions[idx],
                        ResultFor(desc_to_result, transactions[idx].description),
                        ResultFields)
         IN [txns |-> [transactions EXCEPT ![idx] = one.txn],
             raised |-> one.raised]
    ELSE LET left == FanOutIn(transactions, needs_ai, desc_to_result, lo,
                              (lo + hi) \div 2)
         IN IF left.raised THEN left
            ELSE FanOutIn(left.txns, needs_ai, desc_to_result,
                          ((lo + hi) \div 2) + 1, hi)

\* Step 4: fan the results out to the positions of needs_ai.
FanOut(transactions, needs_ai, desc_to_result) ==
    FanOutIn(transactions, needs_ai, desc_to_result, 1, Len(needs_ai))

\* categorize_batch: the transactions as it leaves them, whether it raised,
\* and the model calls it made.
categorize_batch(transactions, mem, key, oracle) ==
    LET hits == BatchMemoryPass(transactions, mem)
        needs_ai == NeedsAi(transactions, mem, 1)
        unique_descs ==
            Dedupe([i \in DOMAIN needs_ai |-> transactions[needs_ai[i]].description])
        ai == ai_categorize_batch(unique_descs, key, oracle)
        out == FanOut(hits, needs_ai, ai.results)
    IN IF needs_ai = <<>>
       THEN [txns |-> hits, raised |-> FALSE, calls |-> <<>>, results |-> EmptyTable]
       ELSE [txns |-> out.txns, raised |-> out.raised, calls |-> ai.calls,
             results |-> ai.results]

\* ------------------------------------------------------------------
\* State
\* ------------------------------------------------------------------

VARIABLES
    merchants,      \* merchants table: merchantName -> item
    txns,           \* transactions table: primary key -> item
    summaries,      \* summaries table: monthKey -> summary
    buckets,        \* buckets table: bucketId -> bucket
    apiKey,         \* the OPENAI_API_KEY of the deployment
    last,           \* the last request and its response
    remembered,     \* history: per normalized description, the last
                    \* remember_merchant call made for it and the call it
                    \* overwrote
    expenses,       \* live expenses table: primary key -> item
    bills,          \* recurring bills table: primary key -> item
    locking         \* the lock request in progress, if any

vars ==
    <<merchants, txns, summaries, buckets, apiKey, last, remembered, expenses,
      bills, locking>>

\* No lock request is in progress.
Idle == [pc |-> "idle"]

\* ------------------------------------------------------------------
\* Inputs
\* ------------------------------------------------------------------

\* The most items the transactions table holds.
MaxTxns == 2

\* The longest batch one upload or one categorize_batch call carries.
MaxBatch == 2

\* The latest instant a request is stamped with.
MaxTime == 2

Users == {"u1", "u2"}

\* users table: the caller's household, None for a caller not set up.
HouseholdOf(user) == IF user = "u1" THEN "h1" ELSE None

DateJan15 == <<"2", "0", "2", "6", "-", "0", "1", "-", "1", "5">>
DateFeb03 == <<"2", "0", "2", "6", "-", "0", "2", "-", "0", "3">>
Dates == {DateJan15, DateFeb03}

\* date[:7]
MonthKeyOf(date) == SubSeq(date, 1, Min(7, Len(date)))

Months == {MonthKeyOf(d) : d \in Dates}

\* Amounts in cents: a purchase and a deposit.
Amounts == {-4000, 2500}

Times == 1..MaxTime

ApiKeys == {"", "PLACEHOLDER_UPDATE_ME", "sk-live"}

\* JSON objects the model answers with: a good one, a low-confidence one, an
\* unknown bucket, one without a confidence, one without a reasoning.
ItemGood == [bucket |-> "Groceries", confidence |-> 90, reasoning |-> <<"r">>]
ItemLow == [bucket |-> "Health", confidence |-> 50, reasoning |-> <<"r">>]
ItemBogus == [bucket |-> "Bogus", confidence |-> 90, reasoning |-> <<"r">>]
ItemNoConfidence == [bucket |-> "Groceries", reasoning |-> <<"r">>]
ItemNoReasoning == [bucket |-> "Health", confidence |-> 90]
ModelItems == {ItemGood, ItemLow, ItemBogus, ItemNoConfidence, ItemNoReasoning}

JsonObj(item) == [t |-> "obj", o |-> item]
JsonStr == [t |-> "str"]
JsonArr(seq) == [t |-> "arr", a |-> seq]
JsonValues == {JsonObj(i) : i \in ModelItems} \cup {JsonStr}

Raise == [t |-> "raise"]
Text == [t |-> "text"]
Json(v) == [t |-> "json", v |-> v]

SeqsUpTo(S, n) == UNION {[1..k -> S] : k \in 0..n}

\* Replies to a single-item call.
SingleReplies ==
    {Raise, Text} \cup {Json(v) : v \in JsonValues}
        \cup {Json(JsonArr(<<JsonObj(ItemGood)>>))}

\* An array of n confident answers.
GoodArray(n) == Json(JsonArr([i \in 1..n |-> JsonObj(ItemGood)]))

\* Replies to a chunk call of n descriptions: arrays of up to n + 1 values,
\* a JSON object, a failure.
ChunkReplies(n) ==
    {Raise, Text, Json(JsonObj(ItemGood))}
        \cup {Json(JsonArr(s)) : s \in SeqsUpTo(JsonValues, n)}
        \cup {Json(JsonArr([i \in 1..(n + 1) |-> JsonObj(ItemGood)]))}

\* The model's behaviour during one categorize_batch call: its reply to each
\* chunk call and to the single-item call for each description.
RichOracles(descs, n) ==
    {[chunk |-> [c \in {1} |-> r], single |-> [d \in descs |-> Raise]] :
        r \in ChunkReplies(n)}
        \cup {[chunk |-> [c \in {1} |-> r], single |-> f] :
                r \in {Raise, Json(JsonArr(<<>>))},
                f \in [descs -> SingleReplies]}

\* A canonical transaction, as the normalizer or the extractor hands it on.
Canonical(date, description, amount) ==
    [date |-> date, description |-> description,
     original_description |-> description, amount |-> amount, source |-> "bank"]

BatchesOver(descs, dates, amounts) ==
    UNION {[1..k -> {Canonical(dt, d, a) : dt \in dates, d \in descs, a \in amounts}] :
            k \in 1..MaxBatch}

DescsOf(batch) == {batch[i].description : i \in DOMAIN batch}

\* ------------------------------------------------------------------
\* Queries on the transactions table
\* ------------------------------------------------------------------

\* query_items(t_table, Key("monthKey").eq(month_key), index_name="byMonth")
ByMonth(table, month_key) == {k \in DOMAIN table : table[k].monthKey = month_key}

\* query_items(table, Key("householdId").eq(hid))
ByHousehold(table, hid) ==
    {k \in DOMAIN table : DictGet(table[k], "householdId") = hid}

\* What remains of a set of n + over items when over of them are left out.
RECURSIVE Without(_, _)
Without(S, over) ==
    IF over <= 0 THEN {S} ELSE UNION {Without(S \ {k}, over - 1) : k \in S}

\* query_items(..., limit): one request with Limit and no paging, so the
\* answer is the first limit items of the index, in an order the code does not
\* fix; every set of limit items is a possible answer.
QueryPages(keys, limit) == Without(keys, Cardinality(keys) - limit)

\* The limits _get_summary, _lock_month and _delete_expenses query with.
SUMMARY_LIMIT == 2000
LOCK_LIMIT == 2000
DELETE_LIMIT == 5000

\* sum(...): the values of f added up, each value times the number of
\* arguments that take it.
RECURSIVE SumValues(_, _)
SumValues(f, values) ==
    IF values = {} THEN 0
    ELSE LET v == CHOOSE x \in values : TRUE
         IN v * Cardinality({k \in DOMAIN f : f[k] = v})
              + SumValues(f, values \ {v})

SumFn(f) == SumValues(f, {f[k] : k \in DOMAIN f})

Abs(x) == IF x < 0 THEN -x ELSE x

\* txn.get("amount", 0) and txn.get("confidence", 0)
AmountOf(txn) == IF "amount" \in DOMAIN txn THEN txn.amount ELSE 0
ConfidenceOf(txn) == IF "confidence" \in DOMAIN txn THEN txn.confidence ELSE 0

\* The review threshold, in percent.
REVIEW_THRESHOLD == 70

\* "not t.get('bucket') or t.get('confidence', 0) < 0.7"
\* Mutant: a confidence equal to the threshold needs review too.
NeedsReviewAtThreshold(txn) ==
    ~Truthy(DictGet(txn, "bucket")) \/ ConfidenceOf(txn) <= REVIEW_THRESHOLD

NeedsReview(txn) ==
    ~Truthy(DictGet(txn, "bucket")) \/ ConfidenceOf(txn) < REVIEW_THRESHOLD

\* ------------------------------------------------------------------
\* lib/response.py
\* ------------------------------------------------------------------

ok(body) == [statusCode |-> 200, body |-> body]
\* Mutant: the bad-request helper answers with the conflict status.
bad_request_as_conflict(body) == [statusCode |-> 409, body |-> body]
bad_request(body) == [statusCode |-> 400, body |-> body]
not_found(body) == [statusCode |-> 404, body |-> body]
conflict(body) == [statusCode |-> 409, body |-> body]
server_error(body) == [statusCode |-> 500, body |-> body]

\* ------------------------------------------------------------------
\* handlers/month.py: the summary
\* ------------------------------------------------------------------

\* sorted(all_buckets, key=displayOrder)
RECURSIVE SortedBuckets(_)
SortedBuckets(table) ==
    IF DOMAIN table = {} THEN <<>>
    ELSE LET first == CHOOSE k \in DOMAIN table :
                        \A j \in DOMAIN table :
                            table[k].displayOrder <= table[j].displayOrder
         IN <<table[first]>> \o SortedBuckets(delete_item(table, first))

\* bucket_totals[name]: what the month's transactions spent in a bucket, and
\* how many of them carry it.
BucketSpent(table, keys, name) ==
    SumFn([k \in {x \in keys : DictGet(table[x], "bucket") = name} |->
              IF AmountOf(table[k]) < 0 THEN Abs(AmountOf(table[k])) ELSE 0])

BucketCount(table, keys, name) ==
    Cardinality({x \in keys : DictGet(table[x], "bucket") = name})

\* Python floats (binary64).  A positive float is [m |-> the bits of its
\* significand, the first of them 1, e |-> the exponent of the first bit];
\* zero has no bits.  Results are rounded to the nearest float, ties to even.
MANT_BITS == 53

DoubleZero == [m |-> <<>>, e |-> 0]

\* The float after x.
DoubleSuccessor(x) ==
    IF \A i \in DOMAIN x.m : x.m[i] = 1
    THEN [m |-> [i \in DOMAIN x.m |-> IF i = 1 THEN 1 ELSE 0], e |-> x.e + 1]
    ELSE LET p == CHOOSE i \in DOMAIN x.m :
                      x.m[i] = 0 /\ \A j \in (i + 1)..Len(x.m) : x.m[j] = 1
         IN [m |-> [i \in DOMAIN x.m |->
                       IF i < p THEN x.m[i] ELSE IF i = p THEN 1 ELSE 0],
             e |-> x.e]

\* The float a stored amount of c cents (c / 100 as a decimal) reads as:
\* 24 bits of the whole part, then 60 bits of the fraction by long division
\* in three steps of 20 bits, cut to MANT_BITS bits from the first 1.
DoubleOfCents(c) ==
    IF c = 0 THEN DoubleZero
    ELSE LET whole == c \div 100
             q1 == ((c % 100) * 2^20) \div 100
             r1 == ((c % 100) * 2^20) % 100
             q2 == (r1 * 2^20) \div 100
             r2 == (r1 * 2^20) % 100
             q3 == (r2 * 2^20) \div 100
             r3 == (r2 * 2^20) % 100
             bits == [i \in 1..84 |->
                         IF i <= 24 THEN (whole \div 2^(24 - i)) % 2
                         ELSE IF i <= 44 THEN (q1 \div 2^(44 - i)) % 2
                         ELSE IF i <= 64 THEN (q2 \div 2^(64 - i)) % 2
                         ELSE (q3 \div 2^(84 - i)) % 2]
             lead == CHOOSE i \in 1..84 :
                         bits[i] = 1 /\ \A j \in 1..(i - 1) : bits[j] = 0
             down == [m |-> [j \in 1..MANT_BITS |-> bits[lead + j - 1]],
                      e |-> 24 - lead]
             more == r3 /= 0 \/ \E i \in (lead + MANT_BITS + 1)..84 : bits[i] = 1
         IN IF bits[lead + MANT_BITS] = 1 /\ (more \/ down.m[MANT_BITS] = 1)
            THEN DoubleSuccessor(down)
            ELSE down

RECURSIVE BitsToNat(_)
BitsToNat(s) ==
    IF s = <<>> THEN 0 ELSE 2 * BitsToNat(SubSeq(s, 1, Len(s) - 1)) + s[Len(s)]

\* The k-th group of 13 bits of a significand, counted from its last bit.
Limb(m, k) ==
    BitsToNat([i \in 1..13 |->
                  IF 13 * k + 13 - i < MANT_BITS
                  THEN m[MANT_BITS - (13 * k + 13 - i)] ELSE 0])

\* The product of two significands in groups of 13 bits, the last first.
RECURSIVE ProductLimbs(_, _, _, _)
ProductLimbs(a, b, k, carry) ==
    IF k > 9 THEN <<>>
    ELSE LET v == carry + SumFn([i \in {j \in 0..4 : k - j \in 0..4} |->
                                    Limb(a, i) * Limb(b, k - i)])
         IN <<v % 2^13>> \o ProductLimbs(a, b, k + 1, v \div 2^13)

\* x * y
DoubleMul(x, y) ==
    IF x = DoubleZero \/ y = DoubleZero THEN DoubleZero
    ELSE LET limbs == ProductLimbs(x.m, y.m, 0, 0)
             bit(t) == IF t < 0 THEN 0
                       ELSE (limbs[(t \div 13) + 1] \div 2^(t % 13)) % 2
             top == IF bit(2 * MANT_BITS - 1) = 1
                    THEN 2 * MANT_BITS - 1 ELSE 2 * MANT_BITS - 2
             m == [i \in 1..MANT_BITS |-> bit(top - i + 1)]
             down == [m |-> m, e |-> x.e + y.e + top - (2 * MANT_BITS - 2)]
         IN IF /\ bit(top - MANT_BITS) = 1
               /\ \/ m[MANT_BITS] = 1
                  \/ \E t \in 0..(top - MANT_BITS - 1) : bit(t) = 1
            THEN DoubleSuccessor(down)
            ELSE down

\* x <= y
DoubleLeq(x, y) ==
    IF x = DoubleZero THEN TRUE
    ELSE IF y = DoubleZero THEN FALSE
    ELSE IF x.e /= y.e THEN x.e < y.e
    ELSE \/ x.m = y.m
         \/ \E i \in DOMAIN x.m :
               x.m[i] < y.m[i] /\ \A j \in 1..(i - 1) : x.m[j] = y.m[j]

\* "spent <= target * 0.8" on amounts in cents.  Rounding moves the product
\* by less than a cent, so it decides only when spent is 80% of the target to
\* the cent.  (The float spent is taken as the one nearest the exact sum.)
UnderEighty(spent, target) ==
    \/ spent * 10 < target * 8
    \/ /\ spent * 10 = target * 8
       /\ DoubleLeq(DoubleOfCents(spent),
                    DoubleMul(DoubleOfCents(target), DoubleOfCents(80)))

\* The traffic light of a bucket.
BucketStatus(spent, target) ==
    IF target <= 0 THEN "stable"
    ELSE IF UnderEighty(spent, target) THEN "stable"
    ELSE IF spent <= target THEN "dripping"
    ELSE "overflowing"

BucketSummary(b, table, keys) ==
    [bucketId |-> b.bucketId, name |-> b.name,
     spent |-> BucketSpent(table, keys, b.name),
     target |-> b.monthlyTarget,
     count |-> BucketCount(table, keys, b.name),
     status |-> BucketStatus(BucketSpent(table, keys, b.name), b.monthlyTarget)]

LiveSummary(month_key, table, bucket_table, keys) ==
    LET sorted == SortedBuckets(bucket_table)
    IN IF keys = {}
       THEN [monthKey |-> month_key, locked |-> FALSE, totalSpent |-> 0,
             totalIncome |-> 0, transactionCount |-> 0, needsReview |-> 0,
             buckets |-> <<>>]
       ELSE [monthKey |-> month_key, locked |-> FALSE,
             totalSpent |->
                 SumFn([k \in {x \in keys : AmountOf(table[x]) < 0} |->
                           Abs(AmountOf(table[k]))]),
             totalIncome |->
                 SumFn([k \in {x \in keys : AmountOf(table[x]) >= 0} |->
                           AmountOf(table[k])]),
             transactionCount |-> Cardinality(keys),
             needsReview |-> Cardinality({k \in keys : NeedsReview(table[k])}),
             buckets |->
                 [i \in DOMAIN sorted |-> BucketSummary(sorted[i], table, keys)]]

\* Mutant: the locked flag of a stored summary is never honoured.
IsLockedNever(existing) == FALSE

\* "if existing and existing.get('locked')"
IsLocked(existing) ==
    /\ existing /= NoItem
    /\ "locked" \in DOMAIN existing
    /\ existing.locked = TRUE

\* _get_summary: the locked summary as stored, else the live one of the
\* transactions its query returned.
get_summary(month_key, summary_table, table, bucket_table, keys) ==
    LET existing == get_item(summary_table, month_key)
    IN IF IsLocked(existing)
       THEN ok(existing)
       ELSE ok(LiveSummary(month_key, table, bucket_table, keys))

\* ------------------------------------------------------------------
\* handlers/month.py: lock and delete
\* ------------------------------------------------------------------

\* Mutant: no transaction counts as unreviewed.
UnreviewedNone(table, keys) == {}

\* "unreviewed = [t for t in transactions if not t.get('bucket')]"
Unreviewed(table, keys) == {k \in keys : ~Truthy(DictGet(table[k], "bucket"))}

\* Mutant: the loop that marks the transactions is skipped.
LockNone(table, keys) == table

\* update_item(t_table, key, {"locked": True}) for every transaction queried
LockAll(table, keys) ==
    [k \in DOMAIN table |->
        IF k \in keys THEN DictSet(table[k], "locked", TRUE) ELSE table[k]]

\* The summary _lock_month persists.
FinalSummary(month_key, table, bucket_table, summary_table, user_id, now, keys) ==
    LET body == get_summary(month_key, summary_table, table, bucket_table,
                            keys).body
    IN DictSet(DictSet(DictSet(body, "locked", TRUE), "lockedBy", user_id),
               "lockedAt", now)

\* _lock_month: the tables as it leaves them and its response; keys is what
\* its own query returned, summed what the query of _get_summary returned.
lock_month(month_key, user_id, now, table, summary_table, bucket_table, keys, summed) ==
    LET unreviewed == Unreviewed(table, keys)
        existing == get_item(summary_table, month_key)
        marked == LockAll(table, keys)
        final == FinalSummary(month_key, marked, bucket_table, summary_table,
                              user_id, now, summed)
        same == [txns |-> table, summaries |-> summary_table]
    IN IF keys = {}
       THEN same @@ [resp |-> not_found([error |-> "No transactions found"])]
       ELSE IF unreviewed /= {}
       THEN same @@ [resp |-> bad_request([error |-> "still uncategorized",
                                           count |-> Cardinality(unreviewed)])]
       ELSE IF IsLocked(existing)
       THEN same @@ [resp |-> conflict([error |-> "is already locked"])]
       ELSE [txns |-> marked,
             summaries |-> put_item(summary_table, month_key, final),
             resp |-> ok(final)]

\* The items a delete loop can address: txn["pk"] raises KeyError on an item
\* written without one (a household transaction).
Addressable(table, keys) == {k \in keys : "pk" \in DOMAIN table[k]}

\* The sets of items such a loop may have deleted when it stops: all of them
\* when each is addressable; else the ones the query returned before the first
\* that is not, in an order the code does not fix.
Reachable(table, keys) ==
    IF Addressable(table, keys) = keys THEN {keys}
    ELSE SUBSET Addressable(table, keys)

\* _delete_expenses; keys is what its query returned, reached what its loop
\* got to delete.
delete_expenses(month_key, confirmation, table, summary_table, keys, reached) ==
    LET existing == get_item(summary_table, month_key)
        same == [txns |-> table, summaries |-> summary_table]
    IN IF confirmation /= "DELETE"
       THEN same @@ [resp |-> bad_request([error |-> "Safety check"])]
       ELSE IF IsLocked(existing)
       THEN same @@ [resp |-> conflict([error |-> "is locked"])]
       ELSE IF keys = {}
       THEN same @@ [resp |-> not_found([error |-> "No transactions found"])]
       ELSE IF Addressable(table, keys) /= keys
       THEN [txns |-> [k \in DOMAIN table \ reached |-> table[k]],
             summaries |-> summary_table,
             resp |-> server_error([error |-> "pk"])]
       ELSE [txns |-> [k \in DOMAIN table \ keys |-> table[k]],
             summaries |-> IF existing /= NoItem
                           THEN delete_item(summary_table, month_key)
                           ELSE summary_table,
             resp |-> ok([monthKey |-> month_key,
                          deletedCount |-> Cardinality(keys)])]

\* ------------------------------------------------------------------
\* handlers/upload.py
\* ------------------------------------------------------------------

\* The ids in use: uuid4 never returns one of them.
UsedIds(table) == {table[k].uid : k \in DOMAIN table}
FreshId(table) ==
    LET used == UsedIds(table)
    IN CHOOSE n \in 1..(Cardinality(used) + 1) :
          n \notin used /\ \A m \in 1..(n - 1) : m \in used

\* txn_id: the hash of date, description, amount and upload id, kept as the
\* tuple hashed; with pk and sk it is the primary key.
UploadKey(user_id, txn, upload_id) ==
    [owner |-> <<"USER", user_id>>,
     id |-> <<txn.date, txn.description, txn.amount, upload_id>>]

UploadItem(user_id, txn, upload_id) ==
    [uid |-> upload_id,
     pk |-> <<"USER", user_id>>,
     monthKey |-> MonthKeyOf(txn.date),
     date |-> txn.date,
     description |-> txn.description,
     originalDescription |-> txn.original_description,
     amount |-> txn.amount,
     source |-> txn.source,
     bucket |-> DictGet(txn, "bucket"),
     confidence |-> ConfidenceOf(txn),
     categorizationSource |-> DictGet(txn, "categorization_source"),
     uploadedBy |-> user_id,
     locked |-> FALSE]

\* The most items the batch writer of the store client sends in one request.
FLUSH_AMOUNT == 25

\* The positions of the g-th request of a batch of n items.
FlushGroup(n, g) == ((g - 1) * FLUSH_AMOUNT + 1)..Min(g * FLUSH_AMOUNT, n)

\* The store rejects a request in which two items have the same primary key.
DuplicateKeys(user_id, batch, upload_id, positions) ==
    \E i, j \in positions :
        i /= j /\ UploadKey(user_id, batch[i], upload_id)
                    = UploadKey(user_id, batch[j], upload_id)

\* Mutant: the position in the file is part of the key, so no two rows of an
\* upload share one.
batch_write_by_position(table, user_id, batch, upload_id) ==
    [txns |-> [k \in DOMAIN table
                      \cup {[owner |-> <<"USER", user_id>>,
                             id |-> <<batch[i].date, batch[i].description,
                                      batch[i].amount, upload_id>>,
                             row |-> i] : i \in DOMAIN batch} |->
                  IF k \in DOMAIN table THEN table[k]
                  ELSE UploadItem(user_id, batch[k.row], upload_id)],
     raised |-> FALSE]

\* batch_write: the items go out in requests of FLUSH_AMOUNT, in order; the
\* first request the store rejects raises, the requests before it are stored
\* and no later one is sent.  An item put under a key that is taken replaces
\* the item there.
batch_write(table, user_id, batch, upload_id) ==
    LET n == Len(batch)
        groups == 1..((n + FLUSH_AMOUNT - 1) \div FLUSH_AMOUNT)
        bad == {g \in groups :
                   DuplicateKeys(user_id, batch, upload_id, FlushGroup(n, g))}
        sent == IF bad = {} THEN 1..n
                ELSE 1..((CHOOSE g \in bad : \A h \in bad : g <= h) - 1)
                        * FLUSH_AMOUNT
        new == {UploadKey(user_id, batch[i], upload_id) : i \in sent}
        at(k) == CHOOSE i \in sent :
                    /\ UploadKey(user_id, batch[i], upload_id) = k
                    /\ \A j \in sent :
                          UploadKey(user_id, batch[j], upload_id) = k => j <= i
    IN [txns |-> [k \in DOMAIN table \cup new |->
                     IF k \in new THEN UploadItem(user_id, batch[at(k)], upload_id)
                     ELSE table[k]],
        raised |-> bad /= {}]

\* The handler from step 3 on, given the transactions normalization produced.
upload(user_id, transactions, upload_id, table, mem, key, oracle) ==
    LET cat == categorize_batch(transactions, mem, key, oracle)
        categorized == cat.txns
        written == batch_write(table, user_id, categorized, upload_id)
    IN IF cat.raised
       THEN [txns |-> table,
             resp |-> server_error([error |-> "Upload processing failed"])]
       ELSE IF written.raised
       THEN [txns |-> written.txns,
             resp |-> server_error([error |-> "Upload processing failed"])]
       ELSE [txns |-> written.txns,
             resp |-> ok([uploadId |-> upload_id,
                          monthKey |-> MonthKeyOf(categorized[1].date),
                          transactionsProcessed |-> Len(categorized),
                          needsReview |->
                              Cardinality({i \in DOMAIN categorized :
                                              NeedsReview(categorized[i])}),
                          totalAmount |->
                              SumFn([i \in DOMAIN categorized |->
                                        categorized[i].amount])])]

\* ------------------------------------------------------------------
\* handlers/buckets.py
\* ------------------------------------------------------------------

\* BUCKETS in list order: the display order of the seeded buckets.
BucketList ==
    << "Home & Utilities", "Groceries", "Dining & Coffee", "Subscriptions",
       "Health", "Transport", "Fun & Travel", "One-Off & Big Hits" >>

\* _seed_buckets: every default bucket whose name no bucket carries is added
\* with target 0; the bucket id, a uuid4, is kept as the display order.
seed_buckets(bucket_table) ==
    LET names == {bucket_table[k].name : k \in DOMAIN bucket_table}
        missing == {i \in DOMAIN BucketList : BucketList[i] \notin names}
    IN [k \in DOMAIN bucket_table \cup missing |->
          IF k \in DOMAIN bucket_table THEN bucket_table[k]
          ELSE [bucketId |-> k, name |-> BucketList[k], monthlyTarget |-> 0,
                displayOrder |-> k - 1]]

\* _update_bucket with a body that carries monthlyTarget alone
update_bucket(bucket_table, bucket_id, target) ==
    IF get_item(bucket_table, bucket_id) = NoItem
    THEN [buckets |-> bucket_table, resp |-> not_found([error |-> "not found"])]
    ELSE LET updated == DictSet(bucket_table[bucket_id], "monthlyTarget", target)
         IN [buckets |-> put_item(bucket_table, bucket_id, updated),
             resp |-> ok(updated)]

\* ------------------------------------------------------------------
\* handlers/transactions.py and handlers/data.py: household transactions
\* ------------------------------------------------------------------

HouseholdKey(hid, month_key, txn_id) ==
    [owner |-> <<"HOUSEHOLD", hid>>, id |-> <<month_key, <<>>, 0, txn_id>>]

\* _create: the item carries no bucket, no amount and no locked attribute.
HouseholdItem(hid, user_id, month_key, txn_id, amount_cents) ==
    [uid |-> txn_id, householdId |-> hid, transactionId |-> txn_id,
     amountCents |-> amount_cents, userId |-> user_id, monthKey |-> month_key]

txn_create(table, user_id, amount_cents, month_key, txn_id) ==
    LET hid == HouseholdOf(user_id)
    IN IF ~Truthy(hid)
       THEN [txns |-> table, resp |-> bad_request([error |-> "User not set up"])]
       ELSE IF amount_cents <= 0
       THEN [txns |-> table,
             resp |-> bad_request([error |-> "amountCents must be positive"])]
       ELSE LET item == HouseholdItem(hid, user_id, month_key, txn_id, amount_cents)
            IN [txns |-> put_item(table, HouseholdKey(hid, month_key, txn_id), item),
                resp |-> [statusCode |-> 201, body |-> item]]

\* _delete: the target is looked for among the caller's household items.
txn_delete(table, user_id, txn_id) ==
    LET hid == HouseholdOf(user_id)
        found == {k \in ByHousehold(table, hid) :
                     DictGet(table[k], "transactionId") = txn_id}
    IN IF ~Truthy(hid)
       THEN [txns |-> table, resp |-> bad_request([error |-> "User not set up"])]
       ELSE IF found = {}
       THEN [txns |-> table, resp |-> not_found([error |-> "Transaction not found"])]
       ELSE [txns |-> [k \in DOMAIN table \ found |-> table[k]],
             resp |-> ok([deleted |-> txn_id])]

\* data.py _delete_all: every transaction of the caller's household.
household_delete_all(table, user_id) ==
    LET hid == HouseholdOf(user_id)
        mine == ByHousehold(table, hid)
    IN IF ~Truthy(hid)
       THEN [txns |-> table, resp |-> bad_request([error |-> "User not set up"])]
       ELSE [txns |-> [k \in DOMAIN table \ mine |-> table[k]],
             resp |-> ok([transactions |-> Cardinality(mine)])]

\* ------------------------------------------------------------------
\* Review: setting the bucket of a stored transaction
\* ------------------------------------------------------------------

\* A locked transaction is refused with the conflict signal; else the bucket
\* is set and nothing else.
assign_bucket(table, key, bucket) ==
    IF key \notin DOMAIN table \/ "locked" \notin DOMAIN table[key]
    THEN [txns |-> table, resp |-> not_found([error |-> "Transaction not found"])]
    ELSE IF table[key].locked
    THEN [txns |-> table, resp |-> conflict([error |-> "Transaction is locked"])]
    ELSE [txns |-> put_item(table, key, DictSet(table[key], "bucket", bucket)),
          resp |-> ok([bucket |-> bucket])]

\* ------------------------------------------------------------------
\* Actions
\* ------------------------------------------------------------------

Request(op, req, resp) == [op |-> op, req |-> req, resp |-> resp]

Init ==
    /\ merchants = EmptyTable
    /\ txns = EmptyTable
    /\ summaries = EmptyTable
    /\ buckets = EmptyTable
    /\ apiKey \in ApiKeys
    /\ last = Request("none", <<>>, ok(<<>>))
    /\ remembered = EmptyTable
    /\ expenses = EmptyTable
    /\ bills = EmptyTable
    /\ locking = Idle

\* What the model can answer: with no usable credential every call fails.
SingleRepliesFor(key) == IF Configured(key) THEN SingleReplies ELSE {Raise}

\* The trimmed, lowercased form of a description.
NormalForm(description) == Lower(Strip(description))

RememberMerchant(description, bucket) ==
    /\ merchants' = remember_merchant(merchants, description, bucket)
    /\ last' = Request("remember_merchant",
                       [description |-> description, bucket |-> bucket], ok(<<>>))
    /\ remembered' =
         LET k == NormalForm(description)
         IN put_item(remembered, k,
                     [description |-> description, bucket |-> bucket,
                      overwrote |-> IF k \in DOMAIN remembered
                                    THEN <<remembered[k].description,
                                           remembered[k].bucket>>
                                    ELSE <<>>])
    /\ UNCHANGED <<txns, summaries, buckets, apiKey, expenses, bills, locking>>

CategorizeTransaction(description, reply) ==
    /\ last' = [op |-> "categorize_transaction",
                req |-> [description |-> description],
                resp |-> categorize_transaction(description, merchants, reply),
                calls |-> categorize_transaction_calls(description, merchants,
                                                       reply)]
    /\ UNCHANGED <<merchants, txns, summaries, buckets, apiKey, remembered,
                   expenses, bills, locking>>

\* Mutant: a confident answer of the model to the first transaction is
\* written to the merchant memory.
CategorizeBatchStoring(batch, oracle) ==
    LET out == categorize_batch(batch, merchants, apiKey, oracle)
    IN /\ last' = Request("categorize_batch", [batch |-> batch], out)
       /\ merchants' =
            IF /\ DictGet(out.txns[1], "categorization_source") = "ai"
               /\ DictGet(out.txns[1], "confidence") \in REVIEW_THRESHOLD..100
            THEN remember_merchant(merchants, batch[1].description,
                                   out.txns[1].bucket)
            ELSE merchants
       /\ UNCHANGED <<txns, summaries, buckets, apiKey, remembered, expenses,
                      bills, locking>>

CategorizeBatch(batch, oracle) ==
    /\ last' = Request("categorize_batch", [batch |-> batch],
                       categorize_batch(batch, merchants, apiKey, oracle))
    /\ UNCHANGED <<merchants, txns, summaries, buckets, apiKey, remembered,
                   expenses, bills, locking>>

\* The upload handler, while the table holds no more than cap items.
UploadWithin(cap, user_id, batch, oracle) ==
    /\ Cardinality(DOMAIN txns) + Len(batch) <= cap
    /\ LET out == upload(user_id, batch, FreshId(txns), txns, merchants, apiKey,
                         oracle)
       IN /\ txns' = out.txns
          /\ last' = Request("upload", [user |-> user_id], out.resp)
    /\ UNCHANGED <<merchants, summaries, buckets, apiKey, remembered, expenses,
                   bills, locking>>

Upload(user_id, batch, oracle) == UploadWithin(MaxTxns, user_id, batch, oracle)

\* _get_summary when its query returns keys.
GetSummaryOf(month_key, keys) ==
    /\ last' = Request("get_summary", [month |-> month_key],
                       get_summary(month_key, summaries, txns, buckets, keys))
    /\ UNCHANGED <<merchants, txns, summaries, buckets, apiKey, remembered,
                   expenses, bills, locking>>

GetSummary(month_key) ==
    \E keys \in QueryPages(ByMonth(txns, month_key), SUMMARY_LIMIT) :
        GetSummaryOf(month_key, keys)

LockMonth(month_key, user_id, now) ==
    /\ \E keys \in QueryPages(ByMonth(txns, month_key), LOCK_LIMIT),
          summed \in QueryPages(ByMonth(txns, month_key), SUMMARY_LIMIT) :
       LET out == lock_month(month_key, user_id, now, txns, summaries, buckets,
                             keys, summed)
       IN /\ txns' = out.txns
          /\ summaries' = out.summaries
          /\ last' = Request("lock",
                             [month |-> month_key, user |-> user_id, now |-> now],
                             out.resp)
    /\ UNCHANGED <<merchants, buckets, apiKey, remembered, expenses, bills,
                   locking>>

DeleteExpenses(month_key, confirmation) ==
    /\ \E keys \in QueryPages(ByMonth(txns, month_key), DELETE_LIMIT) :
       \E reached \in Reachable(txns, keys) :
       LET out == delete_expenses(month_key, confirmation, txns, summaries,
                                  keys, reached)
       IN /\ txns' = out.txns
          /\ summaries' = out.summaries
          /\ last' = Request("delete_expenses",
                             [month |-> month_key, confirmation |-> confirmation],
                             out.resp)
    /\ UNCHANGED <<merchants, buckets, apiKey, remembered, expenses, bills,
                   locking>>

\* deletedata.py: with the confirmation, every table is emptied, the
\* transactions first; the handler stops with a server error at a transaction
\* it cannot address.
DeleteAllData(confirmation) ==
    /\ IF confirmation /= "DELETE"
       THEN /\ last' = Request("delete_all_data", [confirmation |-> confirmation],
                               bad_request([error |-> "Safety check"]))
            /\ UNCHANGED <<merchants, txns, summaries, buckets, expenses,
                           bills>>
       ELSE IF Addressable(txns, DOMAIN txns) /= DOMAIN txns
       THEN /\ \E reached \in Reachable(txns, DOMAIN txns) :
                  txns' = [k \in DOMAIN txns \ reached |-> txns[k]]
            /\ last' = Request("delete_all_data", [confirmation |-> confirmation],
                               server_error([error |-> "pk"]))
            /\ UNCHANGED <<merchants, summaries, buckets, expenses, bills>>
       ELSE /\ txns' = EmptyTable
            /\ buckets' = EmptyTable
            /\ merchants' = EmptyTable
            /\ summaries' = EmptyTable
            /\ expenses' = EmptyTable
            /\ bills' = EmptyTable
            /\ last' = Request("delete_all_data", [confirmation |-> confirmation],
                               ok([transactions |-> Cardinality(DOMAIN txns),
                                   summaries |-> Cardinality(DOMAIN summaries)]))
    /\ UNCHANGED <<apiKey, remembered, locking>>

SeedBuckets ==
    /\ buckets' = seed_buckets(buckets)
    /\ last' = Request("seed_buckets", <<>>, ok(<<>>))
    /\ UNCHANGED <<merchants, txns, summaries, apiKey, remembered, expenses,
                   bills, locking>>

UpdateBucket(bucket_id, target) ==
    /\ LET out == update_bucket(buckets, bucket_id, target)
       IN /\ buckets' = out.buckets
          /\ last' = Request("update_bucket",
                             [bucketId |-> bucket_id, target |-> target], out.resp)
    /\ UNCHANGED <<merchants, txns, summaries, apiKey, remembered, expenses,
                   bills, locking>>

TxnCreate(user_id, amount_cents, month_key) ==
    /\ Cardinality(DOMAIN txns) < MaxTxns
    /\ LET out == txn_create(txns, user_id, amount_cents, month_key, FreshId(txns))
       IN /\ txns' = out.txns
          /\ last' = Request("txn_create", [user |-> user_id], out.resp)
    /\ UNCHANGED <<merchants, summaries, buckets, apiKey, remembered, expenses,
                   bills, locking>>

TxnDelete(user_id, txn_id) ==
    /\ LET out == txn_delete(txns, user_id, txn_id)
       IN /\ txns' = out.txns
          /\ last' = Request("txn_delete", [user |-> user_id], out.resp)
    /\ UNCHANGED <<merchants, summaries, buckets, apiKey, remembered, expenses,
                   bills, locking>>

HouseholdDeleteAll(user_id) ==
    /\ LET out == household_delete_all(txns, user_id)
       IN /\ txns' = out.txns
          /\ last' = Request("household_delete_all", [user |-> user_id], out.resp)
    /\ UNCHANGED <<merchants, summaries, buckets, apiKey, remembered, expenses,
                   bills, locking>>

AssignBucket(key, bucket) ==
    /\ LET out == assign_bucket(txns, key, bucket)
       IN /\ txns' = out.txns
          /\ last' = Request("assign_bucket", [bucket |-> bucket], out.resp)
    /\ UNCHANGED <<merchants, summaries, buckets, apiKey, remembered, expenses,
                   bills, locking>>

\* ------------------------------------------------------------------
\* Specifications
\* ------------------------------------------------------------------

\* The month lifecycle: the operations on the transactions, summaries and
\* buckets tables, with a deployment whose model credential is set.  Statements
\* are uploaded for January, expenses are logged by hand in February.
LifeBatches == BatchesOver({DescK}, {DateJan15}, {-4000})

LifeOracles(descs, n) ==
    {[chunk |-> [c \in {1} |-> Json(JsonArr(s))], single |-> [d \in descs |-> Raise]] :
        s \in [1..n -> {JsonObj(ItemGood), JsonObj(ItemBogus),
                        JsonObj(ItemNoConfidence)}]}

LockStamps == {<<"u2", MaxTime>>}

Next ==
    \/ \E batch \in LifeBatches :
         \E oracle \in LifeOracles(DescsOf(batch), Len(batch)) :
           Upload("u1", batch, oracle)
    \/ \E m \in Months : GetSummary(m)
    \/ \E m \in Months, s \in LockStamps : LockMonth(m, s[1], s[2])
    \/ \E m \in Months, c \in {"DELETE", ""} : DeleteExpenses(m, c)
    \/ \E c \in {"DELETE", ""} : DeleteAllData(c)
    \/ SeedBuckets
    \/ \E target \in {5000} : UpdateBucket(2, target)
    \/ \E u \in Users, a \in {0, 1200} : TxnCreate(u, a, MonthKeyOf(DateFeb03))
    \/ \E u \in Users, id \in 1..MaxTxns : TxnDelete(u, id)
    \/ \E u \in Users : HouseholdDeleteAll(u)
    \/ \E k \in DOMAIN txns : AssignBucket(k, "Groceries")

InitLife == Init /\ apiKey = "sk-live"

Spec == InitLife /\ [][Next]_vars

\* The categorization resolver with its memory: remember_merchant,
\* categorize_transaction, categorize_batch and the upload that calls it, in
\* any order, under any of the credentials; one statement is uploaded.
RememberBuckets == {"Groceries", "Health", ""}

CatBatches == BatchesOver({DescTjLoose, DescK}, {DateJan15}, {-4000})

CatUploads == BatchesOver({DescTjLoose}, {DateJan15}, {-4000})

\* The model answers every description alike, unsure or confident, or fails
\* throughout.
CatOracles(descs, n) ==
    {[chunk |-> [c \in {1} |-> Json(JsonArr([i \in 1..n |-> JsonObj(ItemLow)]))],
      single |-> [d \in descs |-> Raise]],
     [chunk |-> [c \in {1} |-> GoodArray(n)], single |-> [d \in descs |-> Raise]],
     [chunk |-> [c \in {1} |-> Raise], single |-> [d \in descs |-> Raise]]}

NextCat ==
    \/ \E d \in {DescTj, DescTjLoose}, b \in RememberBuckets : RememberMerchant(d, b)
    \/ \E d \in Descs :
         \E reply \in SingleRepliesFor(apiKey) : CategorizeTransaction(d, reply)
    \/ \E batch \in CatBatches :
         \E oracle \in CatOracles(DescsOf(batch), Len(batch)) :
           CategorizeBatch(batch, oracle)
    \/ /\ txns = EmptyTable
       /\ \E batch \in CatUploads :
            \E oracle \in CatOracles(DescsOf(batch), Len(batch)) :
              Upload("u1", batch, oracle)

SpecCat == Init /\ [][NextCat]_vars

\* The resolver alone, against every behaviour of the model: merchants are
\* remembered, each once, then one call is answered by any oracle.
BatchBatches == BatchesOver(Descs, {DateJan15}, {-4000})

NextBatch ==
    /\ last.op \notin {"categorize_batch", "categorize_transaction"}
    /\ \/ \E d \in Descs, b \in {"Groceries", "Bogus"} :
            /\ MerchantKey(d) \notin DOMAIN merchants
            /\ RememberMerchant(d, b)
       \/ \E d \in Descs :
            \E reply \in SingleRepliesFor(apiKey) : CategorizeTransaction(d, reply)
       \/ \E batch \in BatchBatches :
            \E oracle \in RichOracles(DescsOf(batch), Len(batch)) :
              CategorizeBatch(batch, oracle)

SpecBatch == Init /\ [][NextBatch]_vars

\* The chunked resolver with its credential set: one categorize_batch call
\* per behaviour, over a statement of up to MaxMisses merchants whose first
\* line may recur at its end, from a memory that may hold the second
\* merchant.
MaxMisses == 41

Digits == <<"0", "1", "2", "3", "4", "5", "6", "7", "8", "9">>

\* The description of the i-th merchant: "m" and the two digits of i.
Merchant(i) == <<"m", Digits[(i \div 10) + 1], Digits[(i % 10) + 1]>>

\* A statement of n merchants followed by the first rep of them again.
LongBatch(n, rep) ==
    [i \in 1..(n + rep) |->
        Canonical(DateJan15, Merchant(IF i <= n THEN i ELSE i - n), -4000)]

LongBatches == {LongBatch(n, rep) : n \in 1..MaxMisses, rep \in {0, 1}}

\* The descriptions of a batch the memory does not answer.
MissesOf(batch, mem) ==
    {d \in DescsOf(batch) : ~MemoryHit(get_item(mem, MerchantKey(d)))}

\* Replies to a chunk call of n descriptions: an array of n objects, of one
\* fewer, of one more, a JSON object, text that is not JSON, a failure.
LongReplies(n) ==
    {GoodArray(n), GoodArray(n - 1), GoodArray(n + 1), Json(JsonObj(ItemGood)),
     Text, Raise}

\* The model's behaviour towards u distinct descriptions: a reply per chunk,
\* and single-item calls that all fail or all succeed.
LongOracles(descs, u) ==
    {[chunk |-> f, single |-> [d \in descs |-> r]] :
        f \in {g \in [1..NumChunks(u) -> UNION {LongReplies(k) : k \in 1..CHUNK_SIZE}] :
                  \A c \in DOMAIN g :
                      g[c] \in LongReplies(Min(CHUNK_SIZE, u - (c - 1) * CHUNK_SIZE))},
        r \in {Raise, Json(JsonObj(ItemGood))}}

NextChunks ==
    /\ last.op /= "categorize_batch"
    /\ \/ /\ Merchant(2) \notin DOMAIN merchants
          /\ RememberMerchant(Merchant(2), "Groceries")
       \/ \E batch \in LongBatches :
            \E oracle \in LongOracles(DescsOf(batch),
                                      Cardinality(MissesOf(batch, merchants))) :
              CategorizeBatch(batch, oracle)

SpecChunks == InitLife /\ [][NextChunks]_vars

\* Review: a statement is uploaded for January into an empty table, with the
\* model answering each line with confidence 0.9, 0.5, exactly 0.7 or an
\* unknown bucket and one merchant possibly remembered; expenses are logged by
\* hand; the month's summary is read.
ItemEdge == [bucket |-> "Health", confidence |-> REVIEW_THRESHOLD, reasoning |-> <<"r">>]

ReviewBatches == BatchesOver({DescTj, DescK}, {DateJan15}, {-4000})

ReviewOracles(descs, n) ==
    {[chunk |-> [c \in {1} |-> Json(JsonArr(s))], single |-> [d \in descs |-> Raise]] :
        s \in [1..n -> {JsonObj(ItemGood), JsonObj(ItemLow), JsonObj(ItemEdge),
                        JsonObj(ItemBogus)}]}

NextReview ==
    \/ /\ MerchantKey(DescTj) \notin DOMAIN merchants
       /\ RememberMerchant(DescTj, "Groceries")
    \/ /\ txns = EmptyTable
       /\ \E batch \in ReviewBatches :
            \E oracle \in ReviewOracles(DescsOf(batch), Len(batch)) :
              Upload("u1", batch, oracle)
    \/ TxnCreate("u1", 1200, MonthKeyOf(DateJan15))
    \/ GetSummary(MonthKeyOf(DateJan15))

SpecReview == InitLife /\ [][NextReview]_vars

\* Status: the buckets are seeded, the Groceries target is set (to nothing,
\* to a refund, to 0.35, 1.40 or 50.00), a statement of grocery purchases is
\* uploaded for January into an empty table, and the month's summary is read.
StatusTargets == {-100, 0, 35, 140, 5000}

StatusAmounts == {-28, -35, -36, -112, -4000}

StatusBatches == BatchesOver({DescK}, {DateJan15}, StatusAmounts)

StatusOracles(descs, n) ==
    {[chunk |-> [c \in {1} |-> GoodArray(n)], single |-> [d \in descs |-> Raise]]}

NextStatus ==
    \/ SeedBuckets
    \/ \E target \in StatusTargets : UpdateBucket(2, target)
    \/ /\ txns = EmptyTable
       /\ \E batch \in StatusBatches :
            \E oracle \in StatusOracles(DescsOf(batch), Len(batch)) :
              Upload("u1", batch, oracle)
    \/ GetSummary(MonthKeyOf(DateJan15))

SpecStatus == InitLife /\ [][NextStatus]_vars

\* A long month: the same statement of 29 January rows (one a day: a purchase,
\* a smaller purchase or a deposit) is uploaded again and again, until the
\* month holds one transaction more than the summary's query returns, and the
\* month's summary is read.
FoldDays == 29

FoldAmounts == <<-4000, -1250, 2500>>

JanuaryDay(d) ==
    <<"2", "0", "2", "6", "-", "0", "1", "-">>
        \o <<Digits[(d \div 10) + 1], Digits[(d % 10) + 1]>>

FoldStatement ==
    [i \in 1..FoldDays |->
        Canonical(JanuaryDay(i), DescK, FoldAmounts[(i % Len(FoldAmounts)) + 1])]

FoldOracles(descs) ==
    {[chunk |-> [c \in {1} |-> GoodArray(1)], single |-> [d \in descs |-> Raise]]}

\* The answers of the summary's query that are looked at: all of the month
\* while that is within the limit, and beyond it the pages that leave out a
\* transaction of the first upload.
FoldPages(month_key) ==
    LET all == ByMonth(txns, month_key)
    IN IF Cardinality(all) <= SUMMARY_LIMIT THEN {all}
       ELSE LET first == {k \in all : txns[k].uid = 1}
            IN {all \ (first \ kept) :
                   kept \in Without(first, Cardinality(all) - SUMMARY_LIMIT)}

NextFold ==
    \/ \E oracle \in FoldOracles(DescsOf(FoldStatement)) :
         UploadWithin(SUMMARY_LIMIT + 1, "u1", FoldStatement, oracle)
    \/ \E keys \in FoldPages(MonthKeyOf(DateJan15)) :
         GetSummaryOf(MonthKeyOf(DateJan15), keys)

SpecFold == InitLife /\ [][NextFold]_vars

\* ------------------------------------------------------------------
\* The month lifecycle: properties
\* ------------------------------------------------------------------

HasLockedSummary(m) == m \in DOMAIN summaries /\ summaries[m].locked = TRUE

MonthTxns(m) == {k \in DOMAIN txns : txns[k].monthKey = m}

LacksBucket(item) == DictGet(item, "bucket") \in {None, ""}

MarkedLocked(item) == "locked" \in DOMAIN item /\ item.locked = TRUE

LastIs(op) == last.op = op

\* The step just taken served a confirmed delete-all-data request.
DeletedAll == last.op = "delete_all_data" /\ last.req.confirmation = "DELETE"

\* C2: once month m has been locked, a summary fetch for m in any
\* later state returns the summary stored at lock time.
C2_FetchAlwaysFrozen ==
    [][\A m \in Months :
         HasLockedSummary(m) =>
           get_summary(m, summaries', txns', buckets',
                       ByMonth(txns', m)).body = summaries[m]]_vars

\* What holds of the frozen summary: once month m has been locked, and until
\* a confirmed delete-all-data request is served, a summary fetch for m returns
\* the summary stored at lock time, whatever was uploaded or retargeted since.
C2_FetchFrozenUntilDeleteAll ==
    [][\A m \in Months :
         (HasLockedSummary(m) /\ ~DeletedAll') =>
           /\ get_summary(m, summaries', txns', buckets',
                       ByMonth(txns', m)).body = summaries[m]
           /\ (last'.op = "get_summary" /\ last'.req.month = m)
                 => last'.resp.body = summaries[m]]_vars

C5_RelockIsConflict ==
    [][\A m \in Months :
         (last'.op = "lock" /\ last'.req.month = m /\ HasLockedSummary(m)) =>
           /\ last'.resp.statusCode = 409
           /\ summaries' = summaries
           /\ txns' = txns]_vars

C7_LockedNeverChanges ==
    [][\A k \in DOMAIN txns :
         MarkedLocked(txns[k]) => (k \in DOMAIN txns' /\ txns'[k] = txns[k])]_vars

\* What holds of a locked transaction: it is neither changed nor removed by
\* any step other than a confirmed delete-all-data request, and a confirmed
\* delete-expenses request for its month is refused with the conflict signal.
C7_LockedChangesOnlyByDeleteAll ==
    [][\A k \in DOMAIN txns :
         (MarkedLocked(txns[k]) /\ ~DeletedAll') =>
           /\ k \in DOMAIN txns' /\ txns'[k] = txns[k]
           /\ (last'.op = "delete_expenses"
                 /\ last'.req.month = txns[k].monthKey
                 /\ last'.req.confirmation = "DELETE")
                 => last'.resp.statusCode = 409]_vars

\* C8: a confirmed delete-expenses request for a month with a locked summary
\* returns the conflict signal and deletes no transaction and no summary.
C8_DeleteLockedIsConflict ==
    [][\A m \in Months :
         (/\ last'.op = "delete_expenses"
          /\ last'.req.month = m
          /\ last'.req.confirmation = "DELETE"
          /\ HasLockedSummary(m)) =>
           /\ last'.resp.statusCode = 409
           /\ txns' = txns
           /\ summaries' = summaries]_vars

\* Such a request has just been refused for a month that holds a locked and
\* an unlocked transaction.
C8_Witness ==
    /\ LastIs("delete_expenses")
    /\ last.req.confirmation = "DELETE"
    /\ last.resp.statusCode = 409
    /\ HasLockedSummary(last.req.month)
    /\ \E k \in MonthTxns(last.req.month) : MarkedLocked(txns[k])
    /\ \E k \in MonthTxns(last.req.month) : ~MarkedLocked(txns[k])

\* C9: a month that has a locked summary has the same locked
\* summary after every step.
C9_LockedIsTerminal ==
    [][\A m \in Months :
         HasLockedSummary(m) =>
           (m \in DOMAIN summaries' /\ summaries'[m] = summaries[m])]_vars

\* What holds of a locked summary: the month has the same locked summary
\* after every step other than a confirmed delete-all-data request.
C9_LockedUntilDeleteAll ==
    [][\A m \in Months :
         (HasLockedSummary(m) /\ ~DeletedAll') =>
           (m \in DOMAIN summaries' /\ summaries'[m] = summaries[m])]_vars

\* ------------------------------------------------------------------
\* The categorization resolver: properties
\* ------------------------------------------------------------------

\* The last remember_merchant call made for the normalized form of d.
Remembered(d) == remembered[NormalForm(d)]

HasRemembered(d) == NormalForm(d) \in DOMAIN remembered

\* A result (of categorize_transaction) is the memory's answer with bucket b.
FromMemory(result, b) ==
    /\ result.bucket = b
    /\ result.confidence = 100
    /\ result.source = "merchant_memory"

\* A transaction categorize_batch has left is the memory's answer with bucket b.
TxnFromMemory(txn, b) ==
    /\ DictGet(txn, "bucket") = b
    /\ DictGet(txn, "confidence") = 100
    /\ DictGet(txn, "categorization_source") = "merchant_memory"

\* A stored upload item is the memory's answer with bucket b.
ItemFromMemory(item, b) ==
    /\ item.bucket = b
    /\ item.confidence = 100
    /\ item.categorizationSource = "merchant_memory"

\* The items the upload just served has stored.
JustUploaded ==
    IF last.op = "upload" /\ last.resp.statusCode = 200
    THEN {k \in DOMAIN txns : txns[k].uid = last.resp.body.uploadId}
    ELSE {}

\* The categorization just served answered every description of the set
\* Considered from memory, with the bucket last remembered for it.
AnsweredFromMemory(Considered) ==
    /\ (last.op = "categorize_transaction" /\ last.req.description \in Considered)
          => FromMemory(last.resp, Remembered(last.req.description).bucket)
    /\ last.op = "categorize_batch" =>
          \A i \in DOMAIN last.resp.txns :
              last.resp.txns[i].description \in Considered =>
                  TxnFromMemory(last.resp.txns[i],
                                Remembered(last.resp.txns[i].description).bucket)
    /\ \A k \in JustUploaded :
          txns[k].description \in Considered =>
              ItemFromMemory(txns[k], Remembered(txns[k].description).bucket)

RememberedBucket(d) == HasRemembered(d) /\ Truthy(Remembered(d).bucket)

Outcome(txn) ==
    <<DictGet(txn, "bucket"), DictGet(txn, "confidence"),
      DictGet(txn, "categorization_source")>>

\* C10: any two transactions of one batch given to
\* categorize_batch whose trimmed, lowercased descriptions are equal end with
\* the same bucket, confidence and source.
C10_EqualNormalFormsSameOutcome ==
    last.op = "categorize_batch" =>
        \A i, j \in DOMAIN last.resp.txns :
            NormalForm(last.resp.txns[i].description)
                = NormalForm(last.resp.txns[j].description)
            => Outcome(last.resp.txns[i]) = Outcome(last.resp.txns[j])

\* ------------------------------------------------------------------
\* The chunked resolver: properties
\* ------------------------------------------------------------------

\* The calls and the results of the categorize_batch call just served.
Calls == last.resp.calls

Results == last.resp.results

ChunkCalls == {i \in DOMAIN Calls : Calls[i].kind = "chunk"}

SingleCallsFor(d) ==
    {i \in DOMAIN Calls : Calls[i].kind = "single" /\ Calls[i].descs = <<d>>}

\* The reply to a chunk call is not a JSON array (text that is not JSON, or
\* another JSON value), or an array of another length than the chunk.
NotAnArrayOfLength(call) ==
    \/ call.reply.t = "text"
    \/ call.reply.t = "json" /\ call.reply.v.t /= "arr"
    \/ /\ call.reply.t = "json"
       /\ call.reply.v.t = "arr"
       /\ Len(call.reply.v.a) /= Len(call.descs)

\* The result of d is the outcome of the single-item call i made for it.
ResultOfSingle(d, i) ==
    /\ d \in DOMAIN Results
    /\ "bucket" \in DOMAIN Results[d]
    /\ Results[d].bucket \in BUCKETS \cup {None}
    /\ Results[d].source \in {"ai", "ai_error"}
    /\ Calls[i].reply = Raise => Results[d] = AiErrorResult
    /\ Calls[i].reply = Json(JsonObj(ItemGood)) =>
          Results[d].bucket = ItemGood.bucket /\ Results[d].source = "ai"

Batch == last.req.batch

\* Its distinct descriptions the memory does not answer, and those it does.
MissDescs == {Batch[i].description : i \in {j \in DOMAIN Batch : ~RememberedBucket(Batch[j].description)}}

HitDescs == {Batch[i].description : i \in {j \in DOMAIN Batch : RememberedBucket(Batch[j].description)}}

\* The chunk calls that carried d, and all descriptions any call carried.
ChunkCallsFor(d) == {i \in ChunkCalls : d \in Range(Calls[i].descs)}

Sent == UNION {Range(Calls[i].descs) : i \in DOMAIN Calls}

NoRepeatIn(call) == Cardinality(Range(call.descs)) = Len(call.descs)

\* The reply to a chunk call is a JSON array of one object per description.
WellFormed(call) ==
    /\ call.reply.t = "json"
    /\ call.reply.v.t = "arr"
    /\ Len(call.reply.v.a) = Len(call.descs)
    /\ \A i \in DOMAIN call.reply.v.a : call.reply.v.a[i].t = "obj"

\* C17 (as stated): during one categorize_batch call the descriptions sent to
\* the model are exactly the distinct memory-miss descriptions, each carried
\* by one call at one position however many transactions share it, and a
\* description resolved from merchant memory is not sent.
C17_EachMissSentOnce ==
    last.op = "categorize_batch" =>
        LET misses == MissDescs
            sent == Sent
        IN /\ sent = misses
           /\ \A i \in DOMAIN Calls : NoRepeatIn(Calls[i])
           /\ \A d \in misses :
                 Cardinality(ChunkCallsFor(d)) + Cardinality(SingleCallsFor(d)) = 1
           /\ HitDescs \cap sent = {}

\* C17 (amended): during one categorize_batch call with a model credential
\* configured, the descriptions sent to the model are exactly the distinct
\* memory-miss descriptions, each sent once in a chunk call however many
\* transactions share it, and once more, in a single-item call of its own,
\* exactly when the reply to its chunk call was rejected; a description
\* resolved from merchant memory is not sent.
C17_EachMissSentOncePerChunk ==
    (last.op = "categorize_batch" /\ Configured(apiKey)) =>
        LET misses == MissDescs
            sent == Sent
        IN /\ sent = misses
           /\ \A i \in DOMAIN Calls : NoRepeatIn(Calls[i])
           /\ \A c \in ChunkCalls :
                 \A j \in DOMAIN Calls[c].descs :
                     LET d == Calls[c].descs[j]
                     IN /\ ChunkCallsFor(d) = {c}
                        /\ Cardinality(SingleCallsFor(d))
                              = IF WellFormed(Calls[c]) THEN 0 ELSE 1
           /\ \A i \in DOMAIN Calls : Calls[i].kind = "single" => Calls[i].descs[1] \in misses
           /\ HitDescs \cap sent = {}

\* Two transactions shared a description the memory does not hold, another
\* was answered from memory, and the model's replies were taken as they came.
C17_Witness ==
    /\ last.op = "categorize_batch"
    /\ Configured(apiKey)
    /\ HitDescs /= {}
    /\ \E i, j \in DOMAIN Batch :
          /\ i /= j
          /\ Batch[i].description = Batch[j].description
          /\ Batch[i].description \in MissDescs
    /\ Len(Calls) = 2
    /\ \A c \in DOMAIN Calls : Calls[c].kind = "chunk" /\ WellFormed(Calls[c])

IsChunkCall(call) == call.kind = "chunk"

\* The descriptions of the chunk calls, one after the other.
RECURSIVE Joined(_)
Joined(calls) ==
    IF calls = <<>> THEN <<>> ELSE Head(calls).descs \o Joined(Tail(calls))

\* The position of the first transaction of the batch described d.
FirstIndex(d) ==
    CHOOSE i \in DOMAIN Batch :
        /\ Batch[i].description = d
        /\ \A j \in 1..(i - 1) : Batch[j].description /= d

\* C18: every model call of one categorize_batch call carries at most 20
\* descriptions, and the chunk calls, taken in order, carry the distinct
\* memory-miss descriptions in the order of their first occurrence, each of
\* them in exactly one chunk.
C18_ChunksPartitionMisses ==
    last.op = "categorize_batch" =>
        LET joined == Joined(SelectSeq(Calls, IsChunkCall))
        IN /\ \A i \in DOMAIN Calls : Len(Calls[i].descs) \in 1..CHUNK_SIZE
           /\ Range(joined) = MissDescs
           /\ Cardinality(Range(joined)) = Len(joined)
           /\ \A p \in 1..(Len(joined) - 1) :
                 FirstIndex(joined[p]) < FirstIndex(joined[p + 1])

\* A statement with a recurring line whose distinct misses took three chunk
\* calls, of CHUNK_SIZE, CHUNK_SIZE and fewer descriptions.
C18_Witness ==
    /\ last.op = "categorize_batch"
    /\ Len(Batch) > Cardinality(MissDescs)
    /\ LET chunks == SelectSeq(Calls, IsChunkCall)
       IN /\ Len(chunks) = 3
          /\ Len(chunks[1].descs) = CHUNK_SIZE
          /\ Len(chunks[2].descs) = CHUNK_SIZE
          /\ Len(chunks[3].descs) < CHUNK_SIZE

\* ------------------------------------------------------------------
\* The resolver's results: properties
\* ------------------------------------------------------------------

ClosedSet == BUCKETS \cup {None}

\* C12: in every result categorize_transaction returns and in every
\* transaction categorize_batch has written a bucket to, the bucket is one of
\* the 8 canonical names or none.
C12_BucketInClosedSet ==
    /\ last.op = "categorize_transaction" => last.resp.bucket \in ClosedSet
    /\ last.op = "categorize_batch" =>
          \A i \in DOMAIN last.resp.txns :
              "bucket" \in DOMAIN last.resp.txns[i] =>
                  last.resp.txns[i].bucket \in ClosedSet

\* The part of C12 about the model: a result that does not come from the
\* memory has a bucket of the closed set, and a suggestion outside it has
\* become bucket none with confidence 0.0.
C12_ModelBucketInClosedSet ==
    /\ (last.op = "categorize_transaction" /\ last.resp.source /= "merchant_memory")
          => /\ last.resp.bucket \in ClosedSet
             /\ last.calls[1].reply = Json(JsonObj(ItemBogus)) =>
                    last.resp.bucket = None /\ last.resp.confidence = 0
    /\ last.op = "categorize_batch" =>
          \A d \in DOMAIN Results :
              /\ Results[d].bucket \in ClosedSet
              /\ Results[d].bucket \notin BUCKETS => Results[d].confidence = 0

\* A description the memory does not answer.
MemoryMiss(d) == ~RememberedBucket(d)

Unavailable == <<None, 0, "ai_unavailable">>

\* The batch path without a credential: every memory miss ends with bucket
\* none, confidence 0.0 and source ai_unavailable, and no model call is made.
BatchUnavailable ==
    last.op = "categorize_batch" =>
        /\ Calls = <<>>
        /\ \A i \in DOMAIN last.resp.txns :
              MemoryMiss(last.resp.txns[i].description) =>
                  Outcome(last.resp.txns[i]) = Unavailable

\* The single-item path without a credential, likewise.
SingleUnavailable ==
    (last.op = "categorize_transaction" /\ MemoryMiss(last.req.description)) =>
        /\ last.calls = <<>>
        /\ <<last.resp.bucket, last.resp.confidence, last.resp.source>> = Unavailable

\* C13: with no model credential configured (empty or the placeholder),
\* every memory miss, of categorize_transaction and of categorize_batch,
\* resolves to bucket none, confidence 0.0, source ai_unavailable, and no
\* model call is made.
C13_NoCredentialNoCall ==
    ~Configured(apiKey) => SingleUnavailable /\ BatchUnavailable

\* The part of C13 about categorize_batch.
C13_BatchNoCredentialNoCall == ~Configured(apiKey) => BatchUnavailable

Failed == <<None, 0, "ai_error">>

RaisedSingleCalls == {i \in DOMAIN Calls : Calls[i].kind = "single" /\ Calls[i].reply = Raise}

\* C14: whatever the model does, categorize_transaction and categorize_batch
\* return normally with a result for every input, and an item whose model
\* call raised ends with bucket none, confidence 0.0 and source ai_error.
C14_ModelFailureNeverFatal ==
    /\ last.op = "categorize_transaction" =>
          /\ {"bucket", "source"} \subseteq DOMAIN last.resp
          /\ (last.calls /= <<>> /\ last.calls[1].reply = Raise) =>
                <<last.resp.bucket, last.resp.confidence, last.resp.source>> = Failed
    /\ last.op = "categorize_batch" =>
          /\ ~last.resp.raised
          /\ \A i \in DOMAIN last.resp.txns :
                {"bucket", "confidence", "categorization_source"}
                    \subseteq DOMAIN last.resp.txns[i]
          /\ \A c \in RaisedSingleCalls, i \in DOMAIN last.resp.txns :
                last.resp.txns[i].description = Calls[c].descs[1] =>
                    Outcome(last.resp.txns[i]) = Failed

\* The part of C14 about a call that raised: the resolver's result for the
\* description of a single-item call that raised is the ai_error result.
C14_RaisedCallIsAiError ==
    /\ (last.op = "categorize_transaction" /\ last.calls /= <<>>
            /\ last.calls[1].reply = Raise)
          => last.resp = AiErrorResult
    /\ last.op = "categorize_batch" =>
          \A c \in RaisedSingleCalls : Results[Calls[c].descs[1]] = AiErrorResult

\* ------------------------------------------------------------------
\* The merchant memory: properties
\* ------------------------------------------------------------------

\* The keys of the memory a step creates or overwrites.
Written == {k \in DOMAIN merchants' : k \notin DOMAIN merchants \/ merchants'[k] /= merchants[k]}

Overwritten(d) ==
    /\ HasRemembered(d)
    /\ Remembered(d).overwrote /= <<>>
    /\ Remembered(d).overwrote[2] /= Remembered(d).bucket

\* The stored entry of d's key is the last write, every field of it.
StoredIsLastWrite(d) ==
    /\ NormalForm(d) \in DOMAIN merchants
    /\ merchants[NormalForm(d)] =
          [merchantName |-> NormalForm(d), bucket |-> Remembered(d).bucket,
           originalDescription |-> Remembered(d).description]

\* The categorization just served gave every description of the set
\* Considered the bucket last remembered for it.
BucketFromLastWrite(Considered) ==
    /\ (last.op = "categorize_transaction" /\ last.req.description \in Considered)
          => last.resp.bucket = Remembered(last.req.description).bucket
    /\ last.op = "categorize_batch" =>
          \A i \in DOMAIN last.resp.txns :
              last.resp.txns[i].description \in Considered =>
                  DictGet(last.resp.txns[i], "bucket")
                      = Remembered(last.resp.txns[i].description).bucket
    /\ \A k \in JustUploaded :
          txns[k].description \in Considered =>
              txns[k].bucket = Remembered(txns[k].description).bucket

Unsure(item) ==
    \/ "bucket" \notin DOMAIN item
    \/ item.bucket \in {None, ""}
    \/ "confidence" \notin DOMAIN item
    \/ item.confidence < REVIEW_THRESHOLD

C20_StatusByThresholds ==
    (last.op = "get_summary" /\ last.resp.body.locked = FALSE) =>
        \A i \in DOMAIN last.resp.body.buckets :
            LET b == last.resp.body.buckets[i]
            IN IF b.target > 0
               THEN /\ b.status = "stable" <=> b.spent * 10 <= b.target * 8
                    /\ b.status = "dripping" <=>
                          (b.spent * 10 > b.target * 8 /\ b.spent <= b.target)
                    /\ b.status = "overflowing" <=> b.spent > b.target
               ELSE b.status = "stable"

\* ------------------------------------------------------------------
\* The summary as a fold: properties
\* ------------------------------------------------------------------

\* The amounts of the stored transactions of a month, all of them or those of
\* one bucket.
SpendOf(keys) ==
    SumFn([k \in {x \in keys : AmountOf(txns[x]) < 0} |-> Abs(AmountOf(txns[k]))])

IncomeOf(keys) ==
    SumFn([k \in {x \in keys : AmountOf(txns[x]) > 0} |-> AmountOf(txns[k])])

InBucket(keys, name) == {k \in keys : DictGet(txns[k], "bucket") = name}

\* C21: the live summary of an unlocked month is the fold over all the
\* transactions stored for the month: total spend, total income, the number
\* of transactions, and the spend of each bucket.
C21_SummaryIsFoldOfMonth ==
    (last.op = "get_summary" /\ last.resp.body.locked = FALSE) =>
        LET body == last.resp.body
            all == ByMonth(txns, last.req.month)
        IN /\ body.totalSpent = SpendOf(all)
           /\ body.totalIncome = IncomeOf(all)
           /\ body.transactionCount = Cardinality(all)
           /\ \A i \in DOMAIN body.buckets :
                 body.buckets[i].spent = SpendOf(InBucket(all, body.buckets[i].name))

\* ------------------------------------------------------------------
\* lib/normalizer.py: reading the CSV text (csv.DictReader)
\* ------------------------------------------------------------------

\* None, where a text is expected.
NoText == <<None>>

DigitChars == {"0", "1", "2", "3", "4", "5", "6", "7", "8", "9"}

\* \w
WordChars == DigitChars \cup Range(UpperLetters) \cup Range(LowerLetters) \cup {"_"}

\* The items of s at the positions P, in order.
Pick(s, P) ==
    [k \in 1..Cardinality(P) |->
        s[CHOOSE p \in P : Cardinality({q \in P : q <= p}) = k]]

\* The mark the reader is fed at the end of each line.
EOL == "<EOL>"

ReaderStart ==
    [st |-> "START_RECORD", field |-> <<>>, fields |-> <<>>, rows |-> <<>>,
     raised |-> FALSE]

SaveField(s) == [s EXCEPT !.fields = Append(@, s.field), !.field = <<>>]

AddChar(s, c, st) == [s EXCEPT !.field = Append(@, c), !.st = st]

EndOfField(s, c) ==
    [SaveField(s) EXCEPT !.st = IF c = EOL THEN "START_RECORD" ELSE "EAT_CRNL"]

StartField(s, c) ==
    IF c \in {"\n", "\r", EOL} THEN EndOfField(s, c)
    ELSE IF c = "\"" THEN [s EXCEPT !.st = "IN_QUOTED_FIELD"]
    ELSE IF c = "," THEN [SaveField(s) EXCEPT !.st = "START_FIELD"]
    ELSE AddChar(s, c, "IN_FIELD")

\* One character through the reader (excel dialect: comma, double quote,
\* doubled quotes, not strict).
ReaderStep(s, c) ==
    IF s.raised THEN s
    ELSE CASE s.st = "START_RECORD" ->
                IF c = EOL THEN s
                ELSE IF c \in {"\n", "\r"} THEN [s EXCEPT !.st = "EAT_CRNL"]
                ELSE StartField(s, c)
           [] s.st = "START_FIELD" -> StartField(s, c)
           [] s.st = "IN_FIELD" ->
                IF c \in {"\n", "\r", EOL} THEN EndOfField(s, c)
                ELSE IF c = "," THEN [SaveField(s) EXCEPT !.st = "START_FIELD"]
                ELSE AddChar(s, c, "IN_FIELD")
           [] s.st = "IN_QUOTED_FIELD" ->
                IF c = EOL THEN s
                ELSE IF c = "\"" THEN [s EXCEPT !.st = "QUOTE_IN_QUOTED_FIELD"]
                ELSE AddChar(s, c, "IN_QUOTED_FIELD")
           [] s.st = "QUOTE_IN_QUOTED_FIELD" ->
                IF c = "\"" THEN AddChar(s, c, "IN_QUOTED_FIELD")
                ELSE IF c = "," THEN [SaveField(s) EXCEPT !.st = "START_FIELD"]
                ELSE IF c \in {"\n", "\r", EOL} THEN EndOfField(s, c)
                ELSE AddChar(s, c, "IN_FIELD")
           [] s.st = "EAT_CRNL" ->
                IF c \in {"\n", "\r"} THEN s
                ELSE IF c = EOL THEN [s EXCEPT !.st = "START_RECORD"]
                ELSE [s EXCEPT !.raised = TRUE]

\* After a line: the record is complete unless a quoted field is open.
EndOfLine(s) ==
    LET t == ReaderStep(s, EOL)
    IN IF t.st = "START_RECORD" /\ ~t.raised
       THEN [t EXCEPT !.rows = Append(@, t.fields), !.fields = <<>>]
       ELSE t

\* io.StringIO hands out the lines, each ending with its "\n".
FeedChar(s, c) ==
    IF c = "\n" THEN EndOfLine(ReaderStep(s, c)) ELSE ReaderStep(s, c)

\* The characters lo..hi of the text through the reader, in order.
RECURSIVE ReadChars(_, _, _, _)
ReadChars(text, lo, hi, s) ==
    IF s.raised \/ lo > hi THEN s
    ELSE IF lo = hi THEN FeedChar(s, text[lo])
    ELSE ReadChars(text, ((lo + hi) \div 2) + 1, hi,
                   ReadChars(text, lo, (lo + hi) \div 2, s))

\* csv.reader over the whole text: the records, or the csv.Error it raises.
\* At the end of the input an open quoted field is closed.
csv_reader(text) ==
    LET read == ReadChars(text, 1, Len(text), ReaderStart)
        last_line == IF text /= <<>> /\ text[Len(text)] /= "\n"
                     THEN EndOfLine(read) ELSE read
        done == IF last_line.st = "IN_QUOTED_FIELD" /\ ~last_line.raised
                THEN [last_line EXCEPT
                         !.rows = Append(@, Append(last_line.fields,
                                                   last_line.field))]
                ELSE last_line
    IN [rows |-> done.rows, raised |-> done.raised]

\* row.get(col) on the dict DictReader makes of a record: the cell of the last
\* column of that name, None for a column the record is too short for.  With
\* no column (col is None) the dict has the key None only when the record is
\* longer than the header, and then the value is a list, .strip() raises and
\* the row is skipped like one with an empty cell: None stands for both.
RowGet(fieldnames, cells, col) ==
    LET at == {i \in DOMAIN fieldnames : fieldnames[i] = col}
    IN IF col = NoText \/ at = {} THEN NoText
       ELSE IF \E i \in at : i > Len(cells) THEN NoText
       ELSE cells[CHOOSE i \in at : \A j \in at : j <= i]

\* "(value or '').strip()"
CellText(v) == IF v = NoText THEN <<>> ELSE Strip(v)

\* ------------------------------------------------------------------
\* lib/normalizer.py: column detection
\* ------------------------------------------------------------------

\* re.search of a plain word, and of two words with ".?" between them.
Contains(s, w) ==
    \E i \in 0..(Len(s) - Len(w)) : SubSeq(s, i + 1, i + Len(w)) = w

ContainsGap(s, w1, w2) ==
    \E i \in 0..(Len(s) - Len(w1) - Len(w2)) :
        /\ SubSeq(s, i + 1, i + Len(w1)) = w1
        /\ \/ SubSeq(s, i + Len(w1) + 1, i + Len(w1) + Len(w2)) = w2
           \/ /\ i + Len(w1) + 1 + Len(w2) <= Len(s)
              /\ s[i + Len(w1) + 1] /= "\n"
              /\ SubSeq(s, i + Len(w1) + 2, i + Len(w1) + 1 + Len(w2)) = w2

ACCOUNT_PATTERNS(s) ==
    \/ \E w \in {<<"a", "c", "c", "o", "u", "n", "t">>,
     <<"a", "c", "c", "t">>} : Contains(Lower(s), w)
    \/ ContainsGap(Lower(s), <<"c", "a", "r", "d">>, <<"n", "u", "m", "b", "e", "r">>)
    \/ ContainsGap(Lower(s), <<"c", "a", "r", "d">>, <<"n", "o">>)
    \/ ContainsGap(Lower(s), <<"l", "a", "s", "t">>, <<"f", "o", "u", "r">>)

DATE_HINTS(s) ==
    \/ \E w \in {<<"d", "a", "t", "e">>,
     <<"p", "o", "s", "t", "e", "d">>,
     <<"s", "e", "t", "t", "l", "e", "m", "e", "n", "t">>} : Contains(Lower(s), w)
    \/ ContainsGap(Lower(s), <<"t", "r", "a", "n", "s">>, <<"d", "a", "t", "e">>)

DESC_HINTS(s) ==
    \E w \in {<<"d", "e", "s", "c">>,
     <<"n", "a", "r", "r">>,
     <<"m", "e", "m", "o">>,
     <<"m", "e", "r", "c", "h", "a", "n", "t">>,
     <<"p", "a", "y", "e", "e">>,
     <<"d", "e", "t", "a", "i", "l">>,
     <<"n", "a", "m", "e">>} : Contains(Lower(s), w)

AMOUNT_HINTS(s) ==
    \E w \in {<<"a", "m", "o", "u", "n", "t">>,
     <<"s", "u", "m">>,
     <<"v", "a", "l", "u", "e">>,
     <<"t", "o", "t", "a", "l">>} : Contains(Lower(s), w)

DEBIT_HINTS(s) ==
    \E w \in {<<"d", "e", "b", "i", "t">>,
     <<"w", "i", "t", "h", "d", "r", "a", "w", "a", "l">>,
     <<"c", "h", "a", "r", "g", "e">>} : Contains(Lower(s), w)

CREDIT_HINTS(s) ==
    \E w \in {<<"c", "r", "e", "d", "i", "t">>,
     <<"d", "e", "p", "o", "s", "i", "t">>,
     <<"p", "a", "y", "m", "e", "n", "t">>} : Contains(Lower(s), w)

NoColumns ==
    [date |-> NoText, description |-> NoText, amount |-> NoText,
     debit |-> NoText, credit |-> NoText]

\* One header through the elif chain of _detect_columns.
DetectColumn(col_map, col) ==
    LET clean == Strip(col)
    IN IF ACCOUNT_PATTERNS(clean) THEN col_map
       ELSE IF col_map.date = NoText /\ DATE_HINTS(clean)
       THEN [col_map EXCEPT !.date = col]
       ELSE IF col_map.description = NoText /\ DESC_HINTS(clean)
       THEN [col_map EXCEPT !.description = col]
       ELSE IF col_map.amount = NoText /\ AMOUNT_HINTS(clean)
       THEN [col_map EXCEPT !.amount = col]
       ELSE IF col_map.debit = NoText /\ DEBIT_HINTS(clean)
       THEN [col_map EXCEPT !.debit = col]
       ELSE IF col_map.credit = NoText /\ CREDIT_HINTS(clean)
       THEN [col_map EXCEPT !.credit = col]
       ELSE col_map

RECURSIVE DetectFrom(_, _, _)
DetectFrom(fieldnames, i, col_map) ==
    IF i > Len(fieldnames) THEN col_map
    ELSE DetectFrom(fieldnames, i + 1, DetectColumn(col_map, fieldnames[i]))

detect_columns(fieldnames) == DetectFrom(fieldnames, 1, NoColumns)

\* ------------------------------------------------------------------
\* lib/normalizer.py: dates
\* ------------------------------------------------------------------

DigitValue(c) == (CHOOSE i \in DOMAIN Digits : Digits[i] = c) - 1

AllDigits(s) == \A i \in DOMAIN s : s[i] \in DigitChars

\* The number a run of digits writes.
RECURSIVE Number(_)
Number(s) ==
    IF s = <<>> THEN 0
    ELSE 10 * Number(SubSeq(s, 1, Len(s) - 1)) + DigitValue(s[Len(s)])

\* The formats of _DATE_FORMATS: the separator and the order of the parts.
DATE_FORMATS ==
    << [sep |-> "/", parts |-> <<"m", "d", "Y">>],
       [sep |-> "/", parts |-> <<"m", "d", "y">>],
       [sep |-> "-", parts |-> <<"Y", "m", "d">>],
       [sep |-> "-", parts |-> <<"m", "d", "Y">>],
       [sep |-> "/", parts |-> <<"d", "m", "Y">>],
       [sep |-> "/", parts |-> <<"Y", "m", "d">>] >>

\* What strptime accepts for a directive: %m 1..12 and %d 1..31 in one or two
\* digits (%d also a blank and a digit), %Y four digits, %y two.
DirectiveMatches(directive, s) ==
    CASE directive = "m" ->
           /\ Len(s) \in 1..2 /\ AllDigits(s)
           /\ Number(s) \in 1..12
      [] directive = "d" ->
           \/ /\ Len(s) \in 1..2 /\ AllDigits(s)
              /\ Number(s) \in 1..31
           \/ /\ Len(s) = 2 /\ s[1] = " "
              /\ s[2] \in DigitChars \ {"0"}
      [] directive = "Y" -> Len(s) = 4 /\ AllDigits(s)
      [] directive = "y" -> Len(s) = 2 /\ AllDigits(s)

DirectiveValue(directive, s) ==
    IF s[1] = " " THEN DigitValue(s[2])
    ELSE IF directive = "y"
    THEN (IF Number(s) < 69 THEN 2000 + Number(s) ELSE 1900 + Number(s))
    ELSE Number(s)

IsLeap(year) == year % 4 = 0 /\ (year % 100 /= 0 \/ year % 400 = 0)

DaysIn(month, year) ==
    IF month = 2 THEN (IF IsLeap(year) THEN 29 ELSE 28)
    ELSE IF month \in {4, 6, 9, 11} THEN 30 ELSE 31

TwoDigits(n) == <<Digits[(n \div 10) + 1], Digits[(n % 10) + 1]>>

\* strftime("%Y"): the year without padding, as the C library of the
\* deployment writes it.
YearText(y) ==
    LET all == TwoDigits(y \div 100) \o TwoDigits(y % 100)
        first == CHOOSE i \in 1..4 : all[i] /= "0" /\ \A j \in 1..(i - 1) : all[j] = "0"
    IN SubSeq(all, first, 4)

\* datetime.strptime(raw, fmt).strftime("%Y-%m-%d"), None for a ValueError.
ParseWith(format, raw) ==
    LET seps == {i \in DOMAIN raw : raw[i] = format.sep}
        first == CHOOSE i \in seps : \A j \in seps : i <= j
        second == CHOOSE i \in seps : \A j \in seps : j <= i
        texts == <<SubSeq(raw, 1, first - 1), SubSeq(raw, first + 1, second - 1),
                   SubSeq(raw, second + 1, Len(raw))>>
        value(directives) ==
            DirectiveValue(CHOOSE d \in directives : d \in Range(format.parts),
                           texts[CHOOSE i \in 1..3 : format.parts[i] \in directives])
        year == value({"Y", "y"})
        month == value({"m"})
        day == value({"d"})
    IN IF Cardinality(seps) /= 2 THEN NoText
       ELSE IF \E i \in 1..3 : ~DirectiveMatches(format.parts[i], texts[i])
       THEN NoText
       ELSE IF year < 1 \/ day > DaysIn(month, year) THEN NoText
       ELSE YearText(year) \o <<"-">> \o TwoDigits(month) \o <<"-">>
                \o TwoDigits(day)

RECURSIVE ParseFrom(_, _)
ParseFrom(raw, i) ==
    IF i > Len(DATE_FORMATS) THEN NoText
    ELSE IF ParseWith(DATE_FORMATS[i], raw) /= NoText
    THEN ParseWith(DATE_FORMATS[i], raw)
    ELSE ParseFrom(raw, i + 1)

parse_date(raw) == ParseFrom(raw, 1)

\* ------------------------------------------------------------------
\* lib/normalizer.py: amounts
\* ------------------------------------------------------------------

\* A float: a sign and a number of cents with the digits written after the
\* cents, or nan, or an infinity with its sign; NoFloat stands for None.
Num(c) == [special |-> "", negative |-> c < 0, cents |-> Abs(c), more |-> <<>>]
NegZero == [special |-> "", negative |-> TRUE, cents |-> 0, more |-> <<>>]
NaN == [special |-> "nan", negative |-> FALSE, cents |-> 0, more |-> <<>>]
PosInf == [special |-> "inf", negative |-> FALSE, cents |-> 0, more |-> <<>>]
NegInf == [special |-> "inf", negative |-> TRUE, cents |-> 0, more |-> <<>>]
NoFloat == [special |-> "None", negative |-> FALSE, cents |-> 0, more |-> <<>>]

\* re.sub(r"[$ ,\xa0]", "", raw)
RemoveSymbols(raw) ==
    Pick(raw, {i \in DOMAIN raw : raw[i] \notin {"$", " ", ",", NBSP}})

\* The digits before and after the point, as a float.
Decimal(whole, fraction) ==
    LET padded == fraction \o <<"0", "0">>
        rest == SubSeq(fraction, 3, Len(fraction))
    IN [special |-> "", negative |-> FALSE,
        cents |-> Number(whole) * 100 + Number(SubSeq(padded, 1, 2)),
        more |-> IF \A i \in DOMAIN rest : rest[i] = "0" THEN <<>> ELSE rest]

\* abs(val) and -val on floats.
FloatAbs(val) == [val EXCEPT !.negative = FALSE]

FloatNeg(val) ==
    IF val.special = "nan" THEN val ELSE [val EXCEPT !.negative = ~@]

\* float(s) for a text of digits, signs, points, blanks and the letters of
\* nan, inf and infinity; NoFloat for a ValueError.
Float(s) ==
    LET t == Strip(s)
        signed == t /= <<>> /\ t[1] \in {"+", "-"}
        negative == signed /\ t[1] = "-"
        body == IF signed THEN Tail(t) ELSE t
        points == {i \in DOMAIN body : body[i] = "."}
        point == IF points = {} THEN Len(body) + 1
                 ELSE CHOOSE i \in points : \A j \in points : i <= j
        whole == SubSeq(body, 1, point - 1)
        fraction == SubSeq(body, point + 1, Len(body))
    IN IF Lower(body) = <<"n", "a", "n">> THEN NaN
       ELSE IF Lower(body) \in {<<"i", "n", "f">>, <<"i", "n", "f", "i", "n", "i", "t", "y">>}
       THEN (IF negative THEN NegInf ELSE PosInf)
       ELSE IF \/ Cardinality(points) > 1
               \/ ~AllDigits(whole) \/ ~AllDigits(fraction)
               \/ (whole = <<>> /\ fraction = <<>>)
       THEN NoFloat
       ELSE IF negative THEN FloatNeg(Decimal(whole, fraction))
       ELSE Decimal(whole, fraction)

\* _to_float
to_float(raw) ==
    LET cleaned == RemoveSymbols(raw)
        swapped == IF /\ cleaned /= <<>>
                      /\ cleaned[1] = "(" /\ cleaned[Len(cleaned)] = ")"
                   THEN <<"-">> \o SubSeq(cleaned, 2, Len(cleaned) - 1)
                   ELSE cleaned
    IN IF raw = <<>> THEN NoFloat ELSE Float(swapped)

\* _parse_amount: the amount column when there is one, else the debit cell
\* made negative, else the credit cell made positive.
parse_amount(fieldnames, cells, col_map) ==
    LET debit_raw == CellText(RowGet(fieldnames, cells, col_map.debit))
        credit_raw == CellText(RowGet(fieldnames, cells, col_map.credit))
    IN IF col_map.amount /= NoText
       THEN to_float(CellText(RowGet(fieldnames, cells, col_map.amount)))
       ELSE IF debit_raw /= <<>>
       THEN (IF to_float(debit_raw) /= NoFloat
             THEN FloatNeg(FloatAbs(to_float(debit_raw))) ELSE NoFloat)
       ELSE IF credit_raw /= <<>>
       THEN (IF to_float(credit_raw) /= NoFloat
             THEN FloatAbs(to_float(credit_raw)) ELSE NoFloat)
       ELSE NoFloat

\* ------------------------------------------------------------------
\* lib/normalizer.py: descriptions and rows
\* ------------------------------------------------------------------

\* The places of the matches of \b\d{4,}\b: the runs of four or more digits
\* with no letter, digit or underscore on either side.
AccountDigits(desc) ==
    {i \in DOMAIN desc :
        /\ desc[i] \in DigitChars
        /\ LET from == CHOOSE a \in 1..i :
                          /\ \A j \in a..i : desc[j] \in DigitChars
                          /\ a = 1 \/ desc[a - 1] \notin DigitChars
               to == CHOOSE b \in i..Len(desc) :
                        /\ \A j \in i..b : desc[j] \in DigitChars
                        /\ b = Len(desc) \/ desc[b + 1] \notin DigitChars
           IN /\ to - from + 1 >= 4
              /\ from = 1 \/ desc[from - 1] \notin WordChars
              /\ to = Len(desc) \/ desc[to + 1] \notin WordChars}

\* re.sub(r"\s{2,}", " ", s): a run of two or more blanks becomes one space.
CollapseBlanks(s) ==
    LET blank(i) == i \in DOMAIN s /\ s[i] \in Whitespace
        inRun(i) == blank(i) /\ (blank(i - 1) \/ blank(i + 1))
        kept == {i \in DOMAIN s : ~(inRun(i) /\ blank(i - 1))}
    IN Pick([i \in DOMAIN s |-> IF inRun(i) THEN " " ELSE s[i]], kept)

\* Mutant: the digits stay.
strip_account_info_kept(desc) == Strip(CollapseBlanks(desc))

\* _strip_account_info
strip_account_info(desc) ==
    Strip(CollapseBlanks(Pick(desc, DOMAIN desc \ AccountDigits(desc))))

\* None, for a row.
NoRow == [dropped |-> TRUE]

\* _normalise_row: the transaction of a row, None for a row that is dropped.
normalise_row(fieldnames, cells, col_map, source, line_num) ==
    LET raw_date == CellText(RowGet(fieldnames, cells, col_map.date))
        parsed_date == parse_date(raw_date)
        raw_desc == CellText(RowGet(fieldnames, cells, col_map.description))
        amount == parse_amount(fieldnames, cells, col_map)
    IN IF parsed_date = NoText THEN NoRow
       ELSE IF raw_desc = <<>> THEN NoRow
       ELSE IF amount = NoFloat THEN NoRow
       ELSE [date |-> parsed_date,
             description |-> strip_account_info(raw_desc),
             amount |-> amount,
             original_description |-> raw_desc,
             source |-> source,
             raw_line |-> line_num]

\* The one element of a set of one.
The(S) == CHOOSE x \in S : TRUE

\* The loop of normalize_csv over the records read: the columns are detected
\* in the header, the records that are not empty are normalised, and the
\* rows dropped are left out.
normalise_rows(records, source) ==
    The({Pick(made, {i \in DOMAIN made : made[i] /= NoRow}) :
            made \in {The({[i \in DOMAIN rows |->
                               normalise_row(records[1], rows[i], col_map,
                                             source, i + 1)] :
                              col_map \in {detect_columns(records[1])},
                              rows \in {Pick(records,
                                             {i \in 2..Len(records) :
                                                 records[i] /= <<>>})}})}})

\* normalize_csv: the transactions of the rows that are not dropped, in order;
\* raised when the reader raises, which nothing in the function catches.
normalize_csv(raw_text, source) ==
    The({IF read.raised THEN [raised |-> TRUE, txns |-> <<>>]
         ELSE IF read.rows = <<>> THEN [raised |-> FALSE, txns |-> <<>>]
         ELSE [raised |-> FALSE, txns |-> normalise_rows(read.rows, source)] :
            read \in {csv_reader(raw_text)}})

\* ------------------------------------------------------------------
\* lib/normalizer.py: one statement through normalize_csv
\* ------------------------------------------------------------------

\* The text of a CSV file: the cells of a line as they are written, with
\* commas between them, each line ended by a line feed.
RECURSIVE CsvLine(_)
CsvLine(cells) ==
    IF cells = <<>> THEN <<>>
    ELSE IF Len(cells) = 1 THEN cells[1]
    ELSE cells[1] \o <<",">> \o CsvLine(Tail(cells))

RECURSIVE CsvText(_)
CsvText(lines) ==
    IF lines = <<>> THEN <<>>
    ELSE CsvLine(lines[1]) \o <<"\n">> \o CsvText(Tail(lines))

HeaderAmount == <<<<"D", "a", "t", "e">>, <<"D", "e", "s", "c", "r", "i", "p", "t", "i", "o", "n">>, <<"A", "m", "o", "u", "n", "t">>>>
HeaderSplit == <<<<"D", "a", "t", "e">>, <<"D", "e", "s", "c", "r", "i", "p", "t", "i", "o", "n">>, <<"D", "e", "b", "i", "t">>, <<"C", "r", "e", "d", "i", "t">>>>
HeaderBoth == <<<<"D", "a", "t", "e">>, <<"D", "e", "s", "c", "r", "i", "p", "t", "i", "o", "n">>, <<"A", "m", "o", "u", "n", "t">>, <<"D", "e", "b", "i", "t">>, <<"C", "r", "e", "d", "i", "t">>>>

\* The row of the example, its description quoted as in the file.
ExampleRow ==
    <<<<"0", "1", "/", "1", "5", "/", "2", "0", "2", "6">>, <<"\"", "S", "T", "A", "R", "B", "U", "C", "K", "S", " ", "#", "4", "5", "2", "1", " ", "N", "E", "W", " ", "Y", "O", "R", "K", " ", "N", "Y", "\"">>, <<"-", "4", ".", "8", "5">>>>

\* Dates: month first, day first, and a day February does not have.
CsvDates == {<<"0", "1", "/", "1", "5", "/", "2", "0", "2", "6">>, <<"1", "3", "/", "0", "1", "/", "2", "0", "2", "6">>, <<"0", "2", "/", "3", "0", "/", "2", "0", "2", "6">>}

\* Descriptions: a name, a reference number alone, a name with a reference
\* number, nothing.
CsvDescs == {<<"C", "O", "F", "F", "E", "E">>, <<"1", "2", "3", "4", "5">>, <<"A", "C", "H", " ", "1", "2", "3", "4", "5", "6", " ", " ", "X">>, <<>>}

AmountCells ==
    {<<"-", "4", ".", "8", "5">>, <<"(", "1", "2", "3", ".", "4", "5", ")">>, <<"$", "1", ",", "2", "3", "4", ".", "5", "0">>, <<"n", "a", "n">>, <<"n", "/", "a">>, <<>>}

DebitCells == {<<>>, <<"4", ".", "8", "5">>, <<"-", "4", ".", "8", "5">>, <<"(", "4", ".", "8", "5", ")">>, <<"n", "a", "n">>}

CreditCells == {<<>>, <<"1", "2", ".", "0", "0">>, <<"-", "1", "2", ".", "0", "0">>, <<"(", "1", "2", ".", "0", "0", ")">>}

\* Rows for statements of two rows: two good ones, one without a date, one
\* whose description is a reference number, one that is empty.
PairRows ==
    {<<<<"0", "1", "/", "1", "5", "/", "2", "0", "2", "6">>, <<"C", "O", "F", "F", "E", "E">>, <<"-", "4", ".", "8", "5">>>>,
     <<<<"0", "1", "/", "1", "6", "/", "2", "0", "2", "6">>, <<"R", "E", "N", "T">>, <<"(", "9", "0", "0", ".", "0", "0", ")">>>>,
     <<<<"p", "e", "n", "d", "i", "n", "g">>, <<"C", "O", "F", "F", "E", "E">>, <<"-", "4", ".", "8", "5">>>>,
     <<<<"0", "1", "/", "1", "7", "/", "2", "0", "2", "6">>, <<"1", "2", "3", "4", "5">>, <<"-", "1", ".", "0", "0">>>>,
     <<>>}

\* A row with a carriage return inside an unquoted cell, as a file edited on
\* an old Mac leaves it.
ReturnRow == <<<<"0", "1", "/", "1", "5", "/", "2", "0", "2", "6">>, <<"A", "\r", "B">>, <<"-", "4", ".", "8", "5">>>>

\* The statements: the header and the rows, each row the cells as written.
CsvStatements ==
    {<<HeaderAmount, ExampleRow>>, <<HeaderAmount, ReturnRow>>, <<>>,
     <<HeaderAmount>>}
    \cup {<<HeaderAmount, <<d, s, a>>>> :
            d \in CsvDates, s \in CsvDescs, a \in AmountCells}
    \cup {<<HeaderSplit, <<d, s, debit, credit>>>> :
            d \in CsvDates \ {<<"0", "2", "/", "3", "0", "/", "2", "0", "2", "6">>}, s \in {<<"C", "O", "F", "F", "E", "E">>, <<"1", "2", "3", "4", "5">>},
            debit \in DebitCells, credit \in CreditCells}
    \cup {<<HeaderBoth, <<<<"0", "1", "/", "1", "5", "/", "2", "0", "2", "6">>, <<"C", "O", "F", "F", "E", "E">>, a, debit, credit>>>> :
            a \in {<<>>, <<"-", "4", ".", "8", "5">>}, debit \in {<<>>, <<"7", ".", "0", "0">>},
            credit \in {<<>>, <<"9", ".", "0", "0">>}}
    \cup {<<HeaderAmount, r1, r2>> : r1 \in PairRows, r2 \in PairRows}

Bank == <<"b", "a", "n", "k">>

\* normalize_csv on the text of a statement.
NormalizeCsv(lines) ==
    /\ last.op = "none"
    /\ last' = Request("normalize_csv",
                       [lines |-> lines, text |-> CsvText(lines), source |-> Bank],
                       normalize_csv(CsvText(lines), Bank))
    /\ UNCHANGED <<merchants, txns, summaries, buckets, apiKey, remembered,
                 expenses, bills, locking>>

NextCsv == \E lines \in CsvStatements : NormalizeCsv(lines)

SpecCsv == InitLife /\ [][NextCsv]_vars

\* ------------------------------------------------------------------
\* lib/normalizer.py: properties
\* ------------------------------------------------------------------

Normalized == last.op = "normalize_csv"

ExampleCall == Normalized /\ last.req.lines = <<HeaderAmount, ExampleRow>>

ExampleTxn(description) ==
    [date |-> <<"2", "0", "2", "6", "-", "0", "1", "-", "1", "5">>, description |-> description, amount |-> Num(-485),
     source |-> Bank]

\* What the claim looks at of a transaction.
Shown(t) ==
    [date |-> t.date, description |-> t.description, amount |-> t.amount,
     source |-> t.source]

DataRows(lines) == Pick(lines, {i \in 2..Len(lines) : lines[i] /= <<>>})

CellOf(lines, t, name) ==
    LET row == DataRows(lines)[t.raw_line - 1]
        at == CHOOSE i \in DOMAIN lines[1] : lines[1][i] = name
    IN IF at <= Len(row) THEN Strip(row[at]) ELSE <<>>

IsZero(a) == a.special = "" /\ a.cents = 0 /\ a.more = <<>>

AtMostZero(a) == a.special \in {"", "inf"} /\ (a.negative \/ IsZero(a))

AtLeastZero(a) == a.special \in {"", "inf"} /\ (~a.negative \/ IsZero(a))

\* C23: with debit and credit columns and no amount column, a transaction
\* whose value comes from the debit cell has amount <= 0 and one whose value
\* comes from the credit cell has amount >= 0, whatever sign the cell is
\* written with; with an amount column the amount is that of the amount cell
\* alone.
C23_SplitColumnsSetSign ==
    Normalized /\ ~last.resp.raised =>
        \A i \in DOMAIN last.resp.txns :
            LET t == last.resp.txns[i]
                lines == last.req.lines
            IN /\ lines[1] = HeaderSplit =>
                    IF CellOf(lines, t, <<"D", "e", "b", "i", "t">>) /= <<>>
                    THEN AtMostZero(t.amount)
                    ELSE AtLeastZero(t.amount)
               /\ lines[1] = HeaderBoth =>
                    t.amount = to_float(CellOf(lines, t, <<"A", "m", "o", "u", "n", "t">>))

\* C24: normalize_csv never raises; every transaction it emits has a parsed
\* calendar date, a non-empty description and a numeric amount, and the
\* emitted transactions are the rows with a usable date, description and
\* amount, in their input order.
IsCalendarDate(d) ==
    /\ Len(d) = 10 /\ d[5] = "-" /\ d[8] = "-"
    /\ AllDigits(SubSeq(d, 1, 4)) /\ AllDigits(SubSeq(d, 6, 7))
    /\ AllDigits(SubSeq(d, 9, 10))
    /\ Number(SubSeq(d, 6, 7)) \in 1..12
    /\ Number(SubSeq(d, 9, 10))
         \in 1..DaysIn(Number(SubSeq(d, 6, 7)), Number(SubSeq(d, 1, 4)))

Usable(t) ==
    /\ IsCalendarDate(t.date)
    /\ t.description /= <<>>
    /\ t.amount.special = ""

C24_DropsUnusableRowsOnly ==
    Normalized =>
        /\ ~last.resp.raised
        /\ \A i \in DOMAIN last.resp.txns :
              /\ Usable(last.resp.txns[i])
              /\ \A j \in DOMAIN last.resp.txns :
                    i < j => last.resp.txns[i].raw_line < last.resp.txns[j].raw_line

\* ------------------------------------------------------------------
\* lib/statement_parser.py: the reply of the model to a statement
\* ------------------------------------------------------------------

\* JSON values inside an entry: a string, a number (as a float), null.
JStr(s) == [t |-> "str", s |-> s]
JNum(c) == [t |-> "num", n |-> Num(c)]
JNull == [t |-> "null"]

\* Python's truth of a JSON value.
JTruthy(v) ==
    CASE v.t = "str" -> v.s /= <<>>
      [] v.t = "num" -> ~IsZero(v.n)
      [] OTHER -> FALSE

\* txn.get(key, default)
JGet(o, key, default) == IF key \in DOMAIN o THEN o[key] ELSE default

\* Matches of a pattern anchored with "$": the pattern is tried from the left,
\* and "$" holds at the end and before a line feed that ends the text.  The
\* text without its leftmost match.
RemoveAtEnd(desc, Pattern(_)) ==
    LET ends == IF desc /= <<>> /\ desc[Len(desc)] = "\n"
                THEN {Len(desc), Len(desc) - 1} ELSE {Len(desc)}
        found == {i \in DOMAIN desc : \E e \in ends : Pattern(SubSeq(desc, i, e))}
        from == CHOOSE i \in found : \A j \in found : i <= j
        to == CHOOSE e \in ends : Pattern(SubSeq(desc, from, e))
    IN IF found = {} THEN desc
       ELSE SubSeq(desc, 1, from - 1) \o SubSeq(desc, to + 1, Len(desc))

AllIn(s, chars) == \A i \in DOMAIN s : s[i] \in chars

\* \s+[A-Z]{2}\s+\d{5}(-\d{4})?
LocationSuffix(s) ==
    \E a \in 1..Len(s) : \E zip \in {5, 10} :
        LET b == Len(s) - zip
        IN /\ a + 2 < b
           /\ AllIn(SubSeq(s, 1, a), Whitespace)
           /\ AllIn(SubSeq(s, a + 1, a + 2), Range(UpperLetters))
           /\ AllIn(SubSeq(s, a + 3, b), Whitespace)
           /\ AllIn(SubSeq(s, b + 1, b + 5), DigitChars)
           /\ zip = 10 => /\ s[b + 6] = "-"
                          /\ AllIn(SubSeq(s, b + 7, b + 10), DigitChars)

\* \s+x{1,4}\d{4}, ignoring case
CardSuffix(s) ==
    \E a \in 1..Len(s) : \E x \in 1..4 :
        /\ a + x + 4 = Len(s)
        /\ AllIn(SubSeq(s, 1, a), Whitespace)
        /\ AllIn(SubSeq(s, a + 1, a + x), {"x", "X"})
        /\ AllIn(SubSeq(s, a + x + 1, a + x + 4), DigitChars)

\* re.sub(r"\s+", " ", s): every run of blanks becomes one space.
CollapseRuns(s) ==
    LET blank(i) == i \in DOMAIN s /\ s[i] \in Whitespace
    IN Pick([i \in DOMAIN s |-> IF blank(i) THEN " " ELSE s[i]],
            {i \in DOMAIN s : ~(blank(i) /\ blank(i - 1))})

\* _clean_description
clean_description(desc) ==
    Strip(CollapseRuns(RemoveAtEnd(RemoveAtEnd(desc, LocationSuffix), CardSuffix)))

\* round(amount, 2) of a float: a float written with cents only is its own
\* rounding; further digits round to the nearer cent.
Round2(val) ==
    IF val.special /= "" \/ val.more = <<>> THEN val
    ELSE [val EXCEPT !.more = <<>>,
                     !.cents = IF DigitValue(val.more[1]) >= 5 THEN @ + 1 ELSE @]

\* float(value): of a number itself, of a string what float() reads in it;
\* NoFloat when it raises (a string that is no number, null).
JFloat(v) ==
    CASE v.t = "num" -> v.n
      [] v.t = "str" -> Float(v.s)
      [] OTHER -> NoFloat

\* One entry of the list through the loop body of _parse_response: "raise"
\* when it raises, "drop" when the entry is skipped, else the transaction.
ParseEntry(txn, source, i) ==
    LET date_str == JGet(txn.o, "date", JStr(<<>>))
        desc == JGet(txn.o, "description", JStr(<<"U", "n", "k", "n", "o", "w", "n">>))
        amount == JFloat(JGet(txn.o, "amount", JNum(0)))
    IN IF txn.t /= "obj" THEN [t |-> "raise"]
       ELSE IF amount = NoFloat THEN [t |-> "raise"]
       ELSE IF ~JTruthy(date_str) \/ ~JTruthy(desc) THEN [t |-> "drop"]
       ELSE IF desc.t /= "str" THEN [t |-> "raise"]
       ELSE [t |-> "txn",
             txn |-> [date |-> date_str,
                      description |-> clean_description(desc.s),
                      original_description |-> desc.s,
                      amount |-> Round2(amount),
                      source |-> source,
                      raw_line |-> i - 1]]

\* _parse_response on the content of the reply once the code fences are off:
\* text that is no JSON and JSON that is no list raise, an entry that raises
\* ends the loop, and so does a list with nothing left.
parse_response(reply, source) ==
    LET parsed == [i \in DOMAIN reply.v.a |-> ParseEntry(reply.v.a[i], source, i)]
        normalized == Pick([i \in DOMAIN parsed |-> parsed[i].txn],
                           {i \in DOMAIN parsed : parsed[i].t = "txn"})
    IN IF reply.t /= "json" \/ reply.v.t /= "arr"
       THEN [raised |-> TRUE, txns |-> <<>>]
       ELSE IF \E i \in DOMAIN parsed : parsed[i].t = "raise"
       THEN [raised |-> TRUE, txns |-> <<>>]
       ELSE IF normalized = <<>> THEN [raised |-> TRUE, txns |-> <<>>]
       ELSE [raised |-> FALSE, txns |-> normalized]

\* The entries the model may write: complete ones, ones without a date or a
\* description (the key missing, empty or null), with an amount that is a
\* number, a string, null or missing, and one that is no object.
Jan15 == JStr(<<"2", "0", "2", "6", "-", "0", "1", "-", "1", "5">>)
Jan16 == JStr(<<"2", "0", "2", "6", "-", "0", "1", "-", "1", "6">>)
Coffee == JStr(<<"C", "O", "F", "F", "E", "E", " ", " ", "S", "H", "O", "P", " ", "N", "Y", " ", "1", "0", "0", "0", "1">>)
Rent == JStr(<<"R", "E", "N", "T", " ", "x", "x", "1", "2", "3", "4">>)

StatementEntries ==
    {JsonObj([date |-> Jan15, description |-> Coffee, amount |-> JNum(-485)]),
     JsonObj([date |-> Jan16, description |-> Rent, amount |-> JStr(<<"-", "9", "0", "0", ".", "0", "0">>)]),
     JsonObj([date |-> Jan16, description |-> Rent]),
     JsonObj([description |-> Coffee, amount |-> JNum(-485)]),
     JsonObj([date |-> JStr(<<>>), description |-> Coffee, amount |-> JNum(-485)]),
     JsonObj([date |-> JNull, description |-> Coffee, amount |-> JNum(-485)]),
     JsonObj([date |-> Jan15, amount |-> JNum(-485)]),
     JsonObj([date |-> Jan15, description |-> JStr(<<>>), amount |-> JNum(-485)]),
     JsonObj([description |-> Coffee, amount |-> JStr(<<"n", "/", "a">>)]),
     JsonObj([description |-> Coffee, amount |-> JNull]),
     JsonStr}

StatementReplies ==
    {Text, Json(JsonObj([transactions |-> JsonArr(<<>>)]))}
    \cup {Json(JsonArr(entries)) : entries \in SeqsUpTo(StatementEntries, 2)}

ParseResponse(reply) ==
    /\ last.op = "none"
    /\ last' = Request("parse_response", [reply |-> reply, source |-> Bank],
                       parse_response(reply, Bank))
    /\ UNCHANGED <<merchants, txns, summaries, buckets, apiKey, remembered,
                 expenses, bills, locking>>

NextExtract == \E reply \in StatementReplies : ParseResponse(reply)

SpecExtract == InitLife /\ [][NextExtract]_vars

\* ------------------------------------------------------------------
\* lib/statement_parser.py: properties
\* ------------------------------------------------------------------

\* An entry lacks a field when it is no object, or the key is missing, or its
\* value is empty or null.
Lacks(entry, key) ==
    \/ entry.t /= "obj"
    \/ key \notin DOMAIN entry.o
    \/ ~JTruthy(entry.o[key])

Complete(entries) ==
    {i \in DOMAIN entries :
        ~Lacks(entries[i], "date") /\ ~Lacks(entries[i], "description")}

ArrayParsed ==
    /\ last.op = "parse_response"
    /\ last.req.reply.t = "json"
    /\ last.req.reply.v.t = "arr"

\* C25: for a reply that is a JSON array the extractor returns the entries
\* that have a date and a description, in their order, dropping the others
\* without failing; it fails when no entry remains.
C25_DropsIncompleteEntries ==
    ArrayParsed =>
        LET entries == last.req.reply.v.a
            kept == Pick(entries, Complete(entries))
        IN IF kept = <<>> THEN last.resp.raised
           ELSE /\ ~last.resp.raised
                /\ Len(last.resp.txns) = Len(kept)
                /\ \A k \in DOMAIN kept :
                      /\ last.resp.txns[k].date = kept[k].o.date
                      /\ last.resp.txns[k].original_description
                            = kept[k].o.description.s

\* ------------------------------------------------------------------
\* Chunks that fail: one categorize_batch call over two or three chunks
\* ------------------------------------------------------------------

\* An array of n objects, the first with a bucket that is not in BUCKETS.
BogusArray(n) ==
    Json(JsonArr([i \in 1..n |-> JsonObj(IF i = 1 THEN ItemBogus ELSE ItemGood)]))

\* Replies to a chunk call of n descriptions: a good array, one with an
\* invalid bucket, one of the wrong length, a failure.
FaultReplies(n) == {GoodArray(n), BogusArray(n), GoodArray(n - 1), Raise}

FaultOracles(descs, u) ==
    {[chunk |-> f, single |-> [d \in descs |-> r]] :
        f \in {g \in [1..NumChunks(u) -> UNION {FaultReplies(k) : k \in 1..CHUNK_SIZE}] :
                  \A c \in DOMAIN g :
                      g[c] \in FaultReplies(Min(CHUNK_SIZE, u - (c - 1) * CHUNK_SIZE))},
        r \in {Raise, Json(JsonObj(ItemGood))}}

\* Statements of one description more than a chunk holds, and of MaxMisses.
FaultBatches ==
    {LongBatch(n, rep) : n \in {CHUNK_SIZE + 1, MaxMisses}, rep \in {0, 1}}

NextFaults ==
    /\ last.op /= "categorize_batch"
    /\ \E batch \in FaultBatches :
         \E oracle \in FaultOracles(DescsOf(batch), Cardinality(DescsOf(batch))) :
           CategorizeBatch(batch, oracle)

SpecFaults == InitLife /\ [][NextFaults]_vars

\* The chunk calls of the call, in order, and the model's behaviour as the
\* calls show it: the reply of each chunk call, and the reply of each
\* single-item call (a failure stands for the calls that were not made).
ChunkSeq == SelectSeq(Calls, IsChunkCall)

OracleSeen ==
    [chunk |-> [k \in DOMAIN ChunkSeq |-> ChunkSeq[k].reply],
     single |-> [d \in MissDescs |->
                    IF SingleCallsFor(d) = {} THEN Raise
                    ELSE Calls[CHOOSE i \in SingleCallsFor(d) : TRUE].reply]]

\* The results had chunk k got a good reply, all else the same.
HadSucceeded(k) ==
    ai_categorize_batch(Joined(ChunkSeq), apiKey,
        [OracleSeen EXCEPT !.chunk[k] = GoodArray(Len(ChunkSeq[k].descs))]).results

\* The chunks' results merged in the given order.
RECURSIVE MergedInOrder(_, _)
MergedInOrder(order, acc) ==
    IF order = <<>> THEN acc
    ELSE MergedInOrder(Tail(order),
            DictUpdate(acc, ai_categorize_chunk(ChunkSeq[Head(order)].descs,
                                                ChunkSeq[Head(order)].reply,
                                                OracleSeen.single).results))

Orders(n) == {p \in [1..n -> 1..n] : \A i, j \in 1..n : p[i] = p[j] => i = j}

\* C26: whatever a chunk's reply (a failure, a wrong length, an invalid
\* bucket), every description has a result, the results of the descriptions
\* of the other chunks are those they would have had the chunk succeeded, and
\* merging the chunks' results in any order gives the same mapping.
C26_ChunksIndependent ==
    last.op = "categorize_batch" =>
        /\ DOMAIN Results = MissDescs
        /\ \A k \in DOMAIN ChunkSeq :
              \A d \in MissDescs \ Range(ChunkSeq[k].descs) :
                  Results[d] = HadSucceeded(k)[d]
        /\ \A order \in Orders(Len(ChunkSeq)) :
              MergedInOrder(order, EmptyTable) = Results

\* Three chunks: the second failed and its single-item calls too, the first
\* got an invalid bucket, the third got a good reply.
C26_Witness ==
    /\ last.op = "categorize_batch"
    /\ Len(ChunkSeq) = 3
    /\ ChunkSeq[1].reply = BogusArray(CHUNK_SIZE)
    /\ ChunkSeq[2].reply = Raise
    /\ ChunkSeq[3].reply = GoodArray(1)
    /\ Results[Merchant(CHUNK_SIZE + 1)].source = "ai_error"
    /\ Results[Merchant(1)].bucket = None
    /\ Results[Merchant(MaxMisses)].bucket = "Groceries"

\* ------------------------------------------------------------------
\* handlers/live.py and handlers/recurring.py
\* ------------------------------------------------------------------

\* The limits of the queries: live expenses of a month, bills of a user.
EXPENSES_LIMIT == 1000
BILLS_LIMIT == 100

\* uuid4(): the r-th of the ids that no key of the table carries.
NewId(ids, r, count) ==
    LET free == {n \in 1..(Cardinality(ids) + count) : n \notin ids}
    IN CHOOSE f \in free : Cardinality({g \in free : g < f}) = r - 1

ExpenseIds(table) == {k[3] : k \in DOMAIN table}

BillIds(table) == {k[2] : k \in DOMAIN table}

\* query_items(le_table, Key("monthKey").eq(month_key), index_name="byMonth"):
\* the items that carry the month key.
LiveByMonth(table, month_key) ==
    {k \in DOMAIN table :
        "monthKey" \in DOMAIN table[k] /\ table[k].monthKey = month_key}

\* query_items(rb_table, pk = USER#user and sk begins with BILL#, limit): the
\* first bills of the user in the order of their keys.
BillsOf(table, user_id, limit) ==
    LET own == {k \in DOMAIN table : k[1] = user_id}
    IN {k \in own : Cardinality({j \in own : j[2] < k[2]}) < limit}

\* _add_bill
add_bill(table, user_id, name, amount, bucket_id) ==
    LET bill_id == NewId(BillIds(table), 1, 1)
        item == [pk |-> user_id, sk |-> bill_id, billId |-> bill_id,
                 userId |-> user_id, name |-> name, amount |-> amount,
                 bucketId |-> bucket_id]
    IN IF name = <<>>
       THEN [bills |-> table, resp |-> bad_request([error |-> "name is required"])]
       ELSE IF ~Truthy(bucket_id)
       THEN [bills |-> table,
             resp |-> bad_request([error |-> "bucketId is required"])]
       ELSE IF amount <= 0
       THEN [bills |-> table,
             resp |-> bad_request([error |-> "amount must be positive"])]
       ELSE [bills |-> put_item(table, <<user_id, bill_id>>, item),
             resp |-> [statusCode |-> 201, body |-> item]]

\* _add_expense
add_expense(table, user_id, amount, bucket_id, date_str) ==
    LET expense_id == NewId(ExpenseIds(table), 1, 1)
        item == [pk |-> user_id, sk |-> <<date_str, expense_id>>,
                 expenseId |-> expense_id, userId |-> user_id,
                 amount |-> amount, bucketId |-> bucket_id, date |-> date_str,
                 monthKey |-> MonthKeyOf(date_str)]
    IN IF ~Truthy(bucket_id)
       THEN [expenses |-> table,
             resp |-> bad_request([error |-> "bucketId is required"])]
       ELSE IF amount <= 0
       THEN [expenses |-> table,
             resp |-> bad_request([error |-> "amount must be positive"])]
       ELSE [expenses |-> put_item(table, <<user_id, date_str, expense_id>>, item),
             resp |-> [statusCode |-> 201, body |-> item]]

\* _update_expense with a new date: the item under the key the body names
\* gets the date and its month; UpdateItem makes the item when there is none.
update_expense(table, key, date_str) ==
    LET old == IF key \in DOMAIN table THEN table[key]
               ELSE [pk |-> key[1], sk |-> <<key[2], key[3]>>]
        new == DictSet(DictSet(old, "date", date_str), "monthKey",
                       MonthKeyOf(date_str))
    IN [expenses |-> put_item(table, key, new), resp |-> ok(new)]

\* The bills the expenses a query returned show as applied by the user.
AppliedBillIds(table, existing, user_id) ==
    {table[k].recurringBillId :
        k \in {e \in existing :
                 /\ DictGet(table[e], "userId") = user_id
                 /\ DictGet(table[e], "source") = "recurring"
                 /\ "recurringBillId" \in DOMAIN table[e]}}

\* The expense _apply_bills makes of a bill.
RecurringExpense(bill, user_id, month_key, expense_id) ==
    [pk |-> user_id, sk |-> <<month_key \o <<"-", "0", "1">>, expense_id>>,
     expenseId |-> expense_id, userId |-> user_id, amount |-> bill.amount,
     bucketId |-> bill.bucketId, date |-> month_key \o <<"-", "0", "1">>,
     monthKey |-> month_key, source |-> "recurring",
     recurringBillId |-> bill.billId]

\* _apply_bills; existing is what its query of the month's live expenses
\* returned.
apply_bills(month_key, user_id, bill_table, expense_table, existing) ==
    LET found == BillsOf(bill_table, user_id, BILLS_LIMIT)
        applied_bill_ids == AppliedBillIds(expense_table, existing, user_id)
        todo == {k \in found : bill_table[k].billId \notin applied_bill_ids}
        rank(k) == 1 + Cardinality({j \in todo : j[2] < k[2]})
        id(k) == NewId(ExpenseIds(expense_table), rank(k), Cardinality(todo))
        made == {<<user_id, month_key \o <<"-", "0", "1">>, id(k)>> : k \in todo}
        bill(key) == bill_table[CHOOSE k \in todo : id(k) = key[3]]
    IN IF month_key = <<>>
       THEN [expenses |-> expense_table,
             resp |-> bad_request([error |-> "monthKey is required"])]
       ELSE IF found = {}
       THEN [expenses |-> expense_table, resp |-> ok([applied |-> 0, skipped |-> 0])]
       ELSE [expenses |->
                [key \in DOMAIN expense_table \cup made |->
                    IF key \in made
                    THEN RecurringExpense(bill(key), user_id, month_key, key[3])
                    ELSE expense_table[key]],
             resp |-> ok([applied |-> Cardinality(todo),
                          skipped |-> Cardinality(found \ todo),
                          total |-> Cardinality(found)])]

AddBill(user_id, name, amount, bucket_id) ==
    LET out == add_bill(bills, user_id, name, amount, bucket_id)
    IN /\ bills' = out.bills
       /\ last' = Request("add_bill", [user |-> user_id], out.resp)
       /\ UNCHANGED <<merchants, txns, summaries, buckets, apiKey, remembered,
                      expenses, locking>>

AddExpense(user_id, amount, bucket_id, date_str) ==
    LET out == add_expense(expenses, user_id, amount, bucket_id, date_str)
    IN /\ expenses' = out.expenses
       /\ last' = Request("add_expense", [user |-> user_id], out.resp)
       /\ UNCHANGED <<merchants, txns, summaries, buckets, apiKey, remembered,
                      bills, locking>>

UpdateExpense(key, date_str) ==
    LET out == update_expense(expenses, key, date_str)
    IN /\ expenses' = out.expenses
       /\ last' = Request("update_expense", [key |-> key, date |-> date_str],
                          out.resp)
       /\ UNCHANGED <<merchants, txns, summaries, buckets, apiKey, remembered,
                      bills, locking>>

ApplyBills(user_id, month_key, existing) ==
    LET out == apply_bills(month_key, user_id, bills, expenses, existing)
    IN /\ expenses' = out.expenses
       /\ last' = Request("apply_bills", [user |-> user_id, month |-> month_key],
                          out.resp)
       /\ UNCHANGED <<merchants, txns, summaries, buckets, apiKey, remembered,
                      bills, locking>>

\* A busy month: a user defines bills; another user records expenses for
\* January one by one, up to the number the month's query returns; the first
\* user applies the bills to January and February, again and again, before
\* the other user's first expense or after nearly all of them, and while the
\* month is quiet moves recurring expenses between the two months.
MaxBills == 2
MaxRecurring == 3

Jan == MonthKeyOf(DateJan15)
Feb == MonthKeyOf(DateFeb03)

Recurring(table) ==
    {k \in DOMAIN table : DictGet(table[k], "source") = "recurring"}

\* What a query over the limit returns: the month without as many of its
\* recurring expenses as exceed the limit.
ApplyPages(month_key) ==
    LET all == LiveByMonth(expenses, month_key)
        some == all \cap Recurring(expenses)
    IN IF Cardinality(all) <= EXPENSES_LIMIT THEN {all}
       ELSE {all \ (some \ kept) :
                kept \in Without(some, Cardinality(all) - EXPENSES_LIMIT)}

NextApply ==
    \/ /\ Cardinality(DOMAIN bills) < MaxBills
       /\ expenses = EmptyTable
       /\ \E amount \in {0, 5000} : AddBill("u1", <<"R", "e", "n", "t">>, amount, "b1")
    \/ /\ Recurring(expenses) = {}
       /\ Cardinality(DOMAIN bills) = MaxBills
       /\ Cardinality(DOMAIN expenses) < EXPENSES_LIMIT
       /\ AddExpense("u2", 1250, "b1", DateJan15)
    \/ /\ Cardinality(Recurring(expenses)) <= MaxRecurring
       /\ Cardinality(DOMAIN expenses) \notin 1..(EXPENSES_LIMIT - 2)
       /\ \E month_key \in {Jan, Feb} : \E existing \in ApplyPages(month_key) :
            ApplyBills("u1", month_key, existing)
    \/ /\ DOMAIN expenses = Recurring(expenses)
       /\ \E key \in Recurring(expenses) : \E date_str \in {DateJan15, DateFeb03} :
            UpdateExpense(key, date_str)

SpecApply == InitLife /\ [][NextApply]_vars

\* ------------------------------------------------------------------
\* Recurring bills: properties
\* ------------------------------------------------------------------

\* The live expenses of the month that the user's bill made.
RecurringFor(table, user_id, month_key, bill_id) ==
    {k \in LiveByMonth(table, month_key) :
        /\ DictGet(table[k], "userId") = user_id
        /\ DictGet(table[k], "source") = "recurring"
        /\ "recurringBillId" \in DOMAIN table[k]
        /\ table[k].recurringBillId = bill_id}

\* C27: a completed apply request adds nothing for a bill the month already
\* holds a recurring expense of, so that a month with at most one recurring
\* expense per bill stays so through every apply request.
C27_ApplyIsIdempotent ==
    [][(last'.op = "apply_bills" /\ last'.resp.statusCode = 200) =>
          \A b \in BillIds(bills) :
              LET before == RecurringFor(expenses, last'.req.user,
                                         last'.req.month, b)
                  after == RecurringFor(expenses', last'.req.user,
                                        last'.req.month, b)
              IN /\ before /= {} => after = before
                 /\ Cardinality(before) <= 1 => Cardinality(after) <= 1]_vars

\* ------------------------------------------------------------------
\* handlers/month.py: a lock request the store fails
\* ------------------------------------------------------------------

\* _lock_month when the store raises after the checks have passed: in the
\* loop of update_item calls, with the transactions of done marked by then,
\* or, with all of them marked, in _get_summary or the summary's put_item.
\* The except clause answers with the server error and undoes nothing.
lock_month_failing(month_key, user_id, now, table, summary_table, bucket_table, keys, done) ==
    IF \/ keys = {}
       \/ Unreviewed(table, keys) /= {}
       \/ IsLocked(get_item(summary_table, month_key))
    THEN lock_month(month_key, user_id, now, table, summary_table, bucket_table,
                    keys, keys)
    ELSE [txns |-> LockAll(table, done), summaries |-> summary_table,
          resp |-> server_error([error |-> "store"])]

LockMonthFails(month_key, user_id, now) ==
    /\ \E keys \in QueryPages(ByMonth(txns, month_key), LOCK_LIMIT) :
       \E done \in SUBSET keys :
       LET out == lock_month_failing(month_key, user_id, now, txns, summaries,
                                     buckets, keys, done)
       IN /\ out.resp.statusCode = 500
          /\ txns' = out.txns
          /\ summaries' = out.summaries
          /\ last' = Request("lock",
                             [month |-> month_key, user |-> user_id, now |-> now],
                             out.resp)
    /\ UNCHANGED <<merchants, buckets, apiKey, remembered, expenses, bills,
                   locking>>

\* The life of the store with a store that may fail a lock request.
NextLockFault ==
    \/ Next
    \/ \E m \in Months, s \in LockStamps : LockMonthFails(m, s[1], s[2])

SpecLockFault == InitLife /\ [][NextLockFault]_vars

\* C28: a lock request that is not answered with success leaves the
\* transactions and the summaries as they were before it.
C28_FailedLockChangesNothing ==
    [][(last'.op = "lock" /\ last'.resp.statusCode /= 200) =>
          (txns' = txns /\ summaries' = summaries)]_vars

\* ------------------------------------------------------------------
\* handlers/month.py: a lock request among other requests
\* ------------------------------------------------------------------

\* _lock_month up to the end of its loop: the query, the checks, and every
\* transaction queried marked. A refusal ends the request.
LockBegin(month_key, user_id, now) ==
    /\ locking = Idle
    /\ \E keys \in QueryPages(ByMonth(txns, month_key), LOCK_LIMIT) :
       LET out == lock_month(month_key, user_id, now, txns, summaries, buckets,
                             keys, keys)
       IN IF out.resp.statusCode /= 200
          THEN /\ last' = Request("lock",
                                  [month |-> month_key, user |-> user_id,
                                   now |-> now],
                                  out.resp)
               /\ UNCHANGED <<txns, locking>>
          ELSE /\ txns' = LockAll(txns, keys)
               /\ locking' = [pc |-> "marked", month |-> month_key,
                              user |-> user_id, now |-> now]
               /\ UNCHANGED last
    /\ UNCHANGED <<merchants, summaries, buckets, apiKey, remembered, expenses,
                   bills>>

\* The rest of _lock_month: the summary of the month as _get_summary reads
\* it now, stored with the lock fields and returned.
LockFinish ==
    /\ locking /= Idle
    /\ \E summed \in QueryPages(ByMonth(txns, locking.month), SUMMARY_LIMIT) :
       LET final == FinalSummary(locking.month, txns, buckets, summaries,
                                 locking.user, locking.now, summed)
       IN /\ summaries' = put_item(summaries, locking.month, final)
          /\ last' = Request("lock",
                             [month |-> locking.month, user |-> locking.user,
                              now |-> locking.now],
                             ok(final))
    /\ locking' = Idle
    /\ UNCHANGED <<merchants, txns, buckets, apiKey, remembered, expenses, bills>>

\* Uploads and deletions of a month's expenses while a lock request is on
\* its way.
NextRace ==
    \/ \E batch \in LifeBatches :
         \E oracle \in LifeOracles(DescsOf(batch), Len(batch)) :
           Upload("u1", batch, oracle)
    \/ \E m \in Months, s \in LockStamps : LockBegin(m, s[1], s[2])
    \/ LockFinish
    \/ \E m \in Months, c \in {"DELETE", ""} : DeleteExpenses(m, c)

SpecRace == InitLife /\ [][NextRace]_vars

\* C29: the summary a successful lock request freezes counts exactly the
\* transactions of the month that carry locked = true, and each transaction
\* it counts has a bucket.
C29_FrozenSummaryIsExact ==
    [][(locking /= Idle /\ last'.op = "lock" /\ last'.resp.statusCode = 200) =>
          LET counted == ByMonth(txns', last'.req.month)
          IN /\ last'.resp.body.transactionCount =
                    Cardinality({k \in counted : MarkedLocked(txns'[k])})
             /\ \A k \in counted : Truthy(DictGet(txns'[k], "bucket"))]_vars

\* ------------------------------------------------------------------
\* handlers/upload.py: statements with repeated rows
\* ------------------------------------------------------------------

\* The most uploads that store something.
MaxUploads == 4

\* A statement one row longer than a request of the batch writer: a row a day
\* through January, then a last row that is a day later, in February, or the
\* first row again (the same purchase twice in the file).
LongDays == FLUSH_AMOUNT + 1

LongRow(i) ==
    Canonical(JanuaryDay(i), DescK, FoldAmounts[(i % Len(FoldAmounts)) + 1])

LongStatements ==
    {[i \in 1..LongDays |-> IF i < LongDays THEN LongRow(i) ELSE final] :
        final \in {LongRow(LongDays), LongRow(1),
                   Canonical(DateFeb03, DescK, -4000)}}

\* A statement of two rows, alike or not.
ShortStatements ==
    {<<LongRow(1), final>> : final \in {LongRow(1), LongRow(2)}}

NextRepeats ==
    /\ Cardinality(UsedIds(txns)) < MaxUploads
    /\ \E batch \in LongStatements \cup ShortStatements :
         \E oracle \in FoldOracles(DescsOf(batch)) :
             UploadWithin(MaxUploads * LongDays, "u1", batch, oracle)

SpecRepeats == InitLife /\ [][NextRepeats]_vars

\* C30: a successful upload adds as many records to the transaction store as
\* the transactionsProcessed it reports, and the month key of each record it
\* adds is the month of the record's date.
C30_OneRecordPerTransaction ==
    [][(last'.op = "upload" /\ last'.resp.statusCode = 200) =>
          LET added == DOMAIN txns' \ DOMAIN txns
          IN /\ Cardinality(added) = last'.resp.body.transactionsProcessed
             /\ \A k \in added : txns'[k].monthKey = MonthKeyOf(txns'[k].date)]_vars

====
